---- MODULE Spec2Model ----
(***************************************************************************)
(* Power state monitor and notification fanout of EC_TG_Bot_v2.            *)
(*                                                                         *)
(*   scheduler process : run_polling_loop -> poll_once ->                  *)
(*                       record_event_if_changed   (src/scheduler/main.py) *)
(*   bot process       : check_and_send_notifications, run every interval  *)
(*                       by the job queue (src/bot/jobs/                   *)
(*                       power_notifications.py), delivering through       *)
(*                       send_message_with_retry (src/bot/utils.py)        *)
(*   database          : table statuses (src/db/models/status.py), table   *)
(*                       users (src/db/models/user.py)                     *)
(***************************************************************************)
EXTENDS Integers, Sequences, FiniteSets, TLC

VARIABLES
    statuses,   \* table statuses, in insertion order
    poll,       \* the scheduler's position inside poll_once
    fed,        \* history: the raw readings handed to record_event_if_changed
    cursor,     \* bot_data["last_notified_status_id"]
    users,      \* table users: user id -> notifs_enabled
    tick,       \* the notifier's position inside check_and_send_notifications
    broadcasts, \* history: event id -> number of fanout cycles started for it
    firstCursor,\* history: the value the cursor was first set to
    pipe,       \* the delivery tasks that share the semaphore and the limiter
    traced,     \* history: the last call traced, its arguments and its result
    sched,      \* the two loops as their schedulers see them
    writer,     \* a second run of record_event_if_changed, beside the poller's
    heartbeat,  \* pi_server and pi_client: their tokens, the heartbeat row
    startup,    \* the scheduler process from its start to its polling loop
    clock       \* the database server's clock, read when a transaction begins

\* The variables of the monitor and the notifier, and the other ones.
core == <<statuses, poll, fed, cursor, users, tick, broadcasts, firstCursor>>
aux == <<pipe, traced, sched, writer, heartbeat, startup, clock>>
edge == <<heartbeat, startup, clock>>
vars == <<statuses, poll, fed, cursor, users, tick, broadcasts, firstCursor,
          pipe, traced, sched, writer, heartbeat, startup, clock>>

(***************************************************************************)
(* Bounds of the model.                                                    *)
(***************************************************************************)
MaxReadings == 6    \* readings fed in one behaviour of the detector
MaxRows == 3        \* rows of table statuses in the whole system

UserIds == {"u1", "u2", "u3"}

\* Optional values: Python's None and SQL's NULL are the empty tuple, a value
\* x that is present is <<x>>.
None == <<>>
Some(x) == <<x>>
NoLabel == "NULL"   \* a NULL label column
PowerLabel == "power"   \* str(Label.power)

(***************************************************************************)
(* Table statuses.                                                         *)
(***************************************************************************)

\* A new row: id from the primary-key sequence, date_created from the
\* server's now(); rows are never deleted, so both grow with every insert.
Status(table, value, label) ==
    [id |-> Len(table) + 1, value |-> value, label |-> label,
     date_created |-> Len(table) + 1]

\* Faulty variant: the table keeps one row per label, which is overwritten.
InsertOrUpdate(table, row) ==
    IF \E i \in 1..Len(table) : table[i].label = row.label
    THEN LET i == CHOOSE k \in 1..Len(table) : table[k].label = row.label
         IN  [table EXCEPT ![i] = row]
    ELSE Append(table, row)
\* session.add(row) and commit.
Insert(table, row) == Append(table, row)

\* ORDER BY date_created DESC: the rows of rs, most recent first.
RECURSIVE OrderByDateDesc(_)
OrderByDateDesc(rs) ==
    IF rs = {} THEN <<>>
    ELSE LET top == CHOOSE r \in rs :
                        \A q \in rs : q.date_created <= r.date_created
         IN  <<top>> \o OrderByDateDesc(rs \ {top})

Limit(s, n) == IF Len(s) <= n THEN s ELSE SubSeq(s, 1, n)

Rows(table) == {table[i] : i \in 1..Len(table)}

\* Faulty variant: the order of the query is ascending, the oldest value is read.
get_first_event_value(table) ==
    LET got == OrderByDateDesc(Rows(table))
    IN  IF got = <<>> THEN None ELSE Some(got[Len(got)].value)

\* select(Status.value).order_by(Status.date_created.desc()).limit(1),
\* scalar_one_or_none(): no WHERE clause, every label is read.
get_last_event_value(table) ==
    LET got == Limit(OrderByDateDesc(Rows(table)), 1)
    IN  IF got = <<>> THEN None ELSE Some(got[1].value)

\* Faulty variant: the comparison with the last value is dropped.
record_always(table, last_value, value) ==
    [changed |-> TRUE, table |-> Insert(table, Status(table, value, NoLabel))]

\* The conditional insert of record_event_if_changed, given the last value it
\* read: Status(value=value) names no label, so the row's label is NULL.
record_event_if_changed(table, last_value, value) ==
    IF last_value # None /\ last_value = Some(value)
    THEN [changed |-> FALSE, table |-> table]
    ELSE [changed |-> TRUE, table |-> Insert(table, Status(table, value, NoLabel))]

(***************************************************************************)
(* The device query of the scheduler.                                      *)
(***************************************************************************)
StopAfterAttempt == 5

\* The attempts of one is_device_on call: k attempts that raise, then one
\* that returns info.device_on ("on" or "off") unless the attempts are used up.
Attempts(k, r) ==
    [i \in 1..(IF k >= StopAfterAttempt THEN StopAfterAttempt ELSE k + 1) |->
        IF i <= k THEN "exc" ELSE r]

DeviceOn == {"on", "off"}

\* tenacity retries on any exception up to 5 attempts; after the last failed
\* attempt retry_error_callback raises DeviceTimeoutError.
\* Faulty variant: the retry is decided by _is_retryable_exception, which
\* holds of no exception but one named TimedOut; any other is raised at once.
RECURSIVE is_device_on_if_retryable(_, _)
is_device_on_if_retryable(outs, n) ==
    IF outs[n] \in DeviceOn THEN outs[n]
    ELSE IF outs[n] # "TimedOut" THEN outs[n]
    ELSE IF n >= StopAfterAttempt THEN "DeviceTimeoutError"
    ELSE is_device_on_if_retryable(outs, n + 1)

\* An attempt ends with info.device_on or raises; every other outcome than
\* "on" and "off" is the class of the exception raised.
RECURSIVE is_device_on(_, _)
is_device_on(outs, n) ==
    IF outs[n] \in DeviceOn THEN outs[n]
    ELSE IF n >= StopAfterAttempt THEN "DeviceTimeoutError"
    ELSE is_device_on(outs, n + 1)

\* Faulty variant: a device that does not answer is taken as powered on.
SampleTimeoutAsOn(outs) ==
    LET r == is_device_on(outs, 1)
    IN  IF r = "DeviceTimeoutError" THEN TRUE ELSE r = "on"

\* poll_once, up to the reading it hands to the detector.
Sample(outs) ==
    LET r == is_device_on(outs, 1)
    IN  IF r = "DeviceTimeoutError" THEN FALSE ELSE r = "on"

PollIdle == [pc |-> "idle", value |-> FALSE, last_value |-> None]

\* poll_once: the device is sampled and the session reads the last value.
\* (The table is capped at MaxRows rows: no poll starts on a full table.)
PollRead(k, r) ==
    /\ poll.pc = "idle"
    /\ Len(statuses) < MaxRows
    /\ poll' = [pc |-> "read", value |-> Sample(Attempts(k, r)),
                last_value |-> get_last_event_value(statuses)]
    /\ UNCHANGED <<statuses, fed, cursor, users, tick, broadcasts, firstCursor>>
    /\ UNCHANGED aux

\* poll_once: the conditional insert and commit; the tick ends.
PollWrite ==
    /\ poll.pc = "read"
    /\ Len(statuses) < MaxRows
    /\ statuses' = record_event_if_changed(statuses, poll.last_value, poll.value).table
    /\ poll' = PollIdle
    /\ UNCHANGED <<fed, cursor, users, tick, broadcasts, firstCursor>>
    /\ UNCHANGED aux

(***************************************************************************)
(* The detector alone: readings fed one per tick, starting from an empty   *)
(* log, with no other writer and no notifier.                              *)
(***************************************************************************)
TickIdle ==
    [pc |-> "idle", cursor0 |-> None, latest |-> None, previous |-> None,
     pending |-> {}, outcome |-> <<>>, results |-> <<>>, exit |-> None]

\* No delivery task exists, no call is traced, the schedulers have started
\* nothing and no second detection runs.
PipeIdle ==
    [caller |-> "none", max_concurrency |-> 0, max_rate |-> 0, tasks |-> <<>>,
     level |-> 0, since |-> 0]
TracedNone == [fn |-> "none"]
SchedIdle == [pc |-> "none"]
WriterIdle == PollIdle

\* Neither pi_server nor pi_client has a token and no heartbeat was stored.
HeartbeatLabels == {"pi-1", "pi-2"}
HeartbeatIdle ==
    [HEARTBEAT_TOKEN |-> "", heartbeat_token |-> "", row |-> None,
     received |-> [l \in HeartbeatLabels |-> None]]
StartupIdle == [pc |-> "none"]
EdgeIdle ==
    /\ heartbeat = HeartbeatIdle
    /\ startup = StartupIdle
    /\ clock = 0

AuxIdle ==
    /\ pipe = PipeIdle
    /\ traced = TracedNone
    /\ sched = SchedIdle
    /\ writer = WriterIdle
    /\ EdgeIdle

InitDetector ==
    /\ statuses = <<>>
    /\ poll = PollIdle
    /\ fed = <<>>
    /\ cursor = None
    /\ users = [u \in UserIds |-> TRUE]
    /\ tick = TickIdle
    /\ broadcasts = [id \in 1..MaxReadings |-> 0]
    /\ firstCursor = None
    /\ AuxIdle

\* One tick of the polling loop in which the reading is recorded as fed and
\* the attempts of the device query are traced.
FeedReading(k, r) ==
    /\ Len(fed) < MaxReadings
    /\ LET value == Sample(Attempts(k, r))
           res == record_event_if_changed(
                      statuses, get_last_event_value(statuses), value)
       IN  /\ statuses' = res.table
           /\ fed' = Append(fed, value)
    /\ traced' = [fn |-> "is_device_on", args |-> Attempts(k, r),
                  result |-> is_device_on(Attempts(k, r), 1)]
    /\ UNCHANGED <<poll, cursor, users, tick, broadcasts, firstCursor>>
    /\ UNCHANGED <<pipe, sched, writer, edge>>

NextDetector == \E k \in 0..StopAfterAttempt, r \in DeviceOn : FeedReading(k, r)

SpecDetector == InitDetector /\ [][NextDetector]_vars

(***************************************************************************)
(* Delivery: send_message_with_retry and its callers.                      *)
(***************************************************************************)

\* The exceptions of the model: the class, its base classes, and the words
\* of interest in the lower-cased class name and in the lower-cased message.
Exc(cls) ==
    CASE cls = "TypeError" ->
            \* "send_message_with_retry() missing 1 required positional
            \* argument: 'disable_sound'"
            [cls |-> cls, bases |-> {"Exception"}, name |-> {}, msg |-> {"retry"}]
      [] cls = "TimedOut" ->
            [cls |-> cls, bases |-> {"NetworkError", "TelegramError", "Exception"},
             name |-> {}, msg |-> {}]
      [] cls = "Forbidden" ->
            [cls |-> cls, bases |-> {"TelegramError", "Exception"},
             name |-> {}, msg |-> {}]
      [] OTHER ->
            [cls |-> cls, bases |-> {"Exception"}, name |-> {}, msg |-> {}]

IsInstance(exc, classes) == ({exc.cls} \cup exc.bases) \cap classes # {}

\* Faulty variant: every exception is retried.
is_retryable_exception_any(exc) == TRUE

\* _is_retryable_telegram_exception, for exceptions without status_code and
\* error_code attributes.
is_retryable_telegram_exception(exc) ==
    \/ IsInstance(exc, {"ConnectionError", "TimeoutError", "OSError"})
    \/ IsInstance(exc, {"TimedOut", "NetworkError"})
    \/ "network" \in exc.name \/ "network" \in exc.msg
    \/ "timeout" \in exc.name \/ "timeout" \in exc.msg
    \/ "connection" \in exc.name \/ "connection" \in exc.msg
    \/ "retry" \in exc.name \/ "rate" \in exc.name \/ "429" \in exc.msg

\* The parameters of send_message_with_retry: the required ones in order,
\* then the one with a default.
SendRequired ==
    <<"bot_app", "semaphore", "rate_limiter", "user_id", "message_text", "disable_sound">>
SendOptional == <<"markdown">>

\* An argument is the pair <<type, value>>.
Arg(type, value) == <<type, value>>

\* Python's binding of a call's arguments to the parameters: positional
\* arguments fill the parameters in order, keyword arguments by name; a
\* required parameter left without a value raises TypeError.
Bind(call) ==
    LET params == SendRequired \o SendOptional
        npos == Len(call.args)
        byPos == {params[i] : i \in 1..(IF npos <= Len(params) THEN npos ELSE Len(params))}
        byKw == DOMAIN call.kwargs
        required == {SendRequired[i] : i \in 1..Len(SendRequired)}
        index(p) == CHOOSE i \in 1..Len(params) : params[i] = p
    IN  IF \/ npos > Len(params)
           \/ byPos \cap byKw # {}
           \/ ~(required \subseteq (byPos \cup byKw))
        THEN [ok |-> FALSE, bound |-> <<>>]
        ELSE [ok |-> TRUE,
              bound |-> [p \in byPos \cup byKw |->
                            IF p \in byPos THEN call.args[index(p)]
                            ELSE call.kwargs[p]]]

\* The call in msg_all: every argument is passed by keyword, bot_app too.
KeywordCall(user_id, final_text, disable_sound) ==
    [args |-> <<>>,
     kwargs |-> [bot_app |-> Arg("Application", "app"),
                 semaphore |-> Arg("Semaphore", "semaphore"),
                 rate_limiter |-> Arg("AsyncLimiter", "rate_limiter"),
                 user_id |-> Arg("int", user_id),
                 message_text |-> Arg("str", final_text),
                 disable_sound |-> Arg("bool", disable_sound)]]

\* The call in _send_status_notification:
\* send_message_with_retry(rate_limiter, semaphore, user_id, final_text, disable_sound)
NotificationCall(user_id, final_text, disable_sound) ==
    [args |-> <<Arg("AsyncLimiter", "rate_limiter"), Arg("Semaphore", "semaphore"),
                Arg("int", user_id), Arg("str", final_text),
                Arg("bool", disable_sound)>>,
     kwargs |-> <<>>]

StopAfterSendAttempt == 3

SendOutcomes == {"ok", "TimedOut", "Forbidden"}

\* One attempt of the body of send_message_with_retry with the bound
\* parameters: the semaphore and the limiter are entered, then the message
\* is sent with outcome out.
SendAttempt(bound, out) ==
    IF \/ bound["semaphore"][1] # "Semaphore"
       \/ bound["rate_limiter"][1] # "AsyncLimiter"
    THEN "TypeError"
    ELSE IF bound["bot_app"][1] # "Application" THEN "AttributeError"
    ELSE out

\* send_message_with_retry under its tenacity decorator: attempt n and the
\* ones after it. outs[n] is the outcome of the n-th send. The result is
\* "ok" or the class of the exception that is re-raised.
RECURSIVE send_message_with_retry(_, _, _)
send_message_with_retry(call, outs, n) ==
    LET b == Bind(call)
        r == IF b.ok THEN SendAttempt(b.bound, outs[n]) ELSE "TypeError"
    IN  IF r = "ok" THEN [result |-> "ok", attempts |-> n]
        ELSE IF is_retryable_telegram_exception(Exc(r)) /\ n < StopAfterSendAttempt
        THEN send_message_with_retry(call, outs, n + 1)
        ELSE [result |-> r, attempts |-> n]

\* Faulty variant: the exception of the final failure is not caught.
send_status_notification_raising(u, outs) ==
    LET r == send_message_with_retry(NotificationCall(u, "final_text", "silent"), outs, 1)
    IN  [raised |-> IF r.result = "ok" THEN None ELSE Some(r.result),
         delivery |-> IF r.result = "ok" THEN "sent" ELSE "failed",
         attempts |-> r.attempts]

\* _send_status_notification: the try/except around the send logs the final
\* failure and raises nothing.
send_status_notification(u, outs) ==
    LET r == send_message_with_retry(NotificationCall(u, "final_text", "silent"), outs, 1)
    IN  [raised |-> None,
         delivery |-> IF r.result = "ok" THEN "sent" ELSE "failed",
         attempts |-> r.attempts]

\* _send_notification_task: what the task of one user ends with; an
\* exception of _send_status_notification is logged and not raised.
send_notification_task(u, outs) ==
    LET r == send_status_notification(u, outs)
    IN  [raised |-> None, delivery |-> r.delivery, attempts |-> r.attempts]

(***************************************************************************)
(* The send pipeline: the tasks of one broadcast inside                    *)
(* send_message_with_retry, sharing the semaphore and the rate limiter     *)
(* that start_bot creates.                                                 *)
(***************************************************************************)
MaxDeliveries == 3  \* tasks of the broadcast
MaxEnv == 2         \* the largest value configured in the environment

\* The clock stops after this many units of time.
MaxTime == MaxDeliveries - 1

DefaultRateLimitPerSec == 20
DefaultMaxConcurrency == 10

\* os.getenv(name, default): the variable is unset or holds a number.
EnvValues == {None} \cup {Some(n) : n \in 0..MaxEnv}
Getenv(env, default) == IF env = None THEN default ELSE env[1]

\* start_bot: the configured values, with the fallback for values <= 0.
RateLimitPerSec(env) ==
    LET v == Getenv(env, DefaultRateLimitPerSec) IN IF v <= 0 THEN 1 ELSE v
MaxConcurrency(env) ==
    LET v == Getenv(env, DefaultMaxConcurrency) IN IF v <= 0 THEN 1 ELSE v

Deliveries == 1..MaxDeliveries

\* A task that has been created and has not yet made its call.
TaskNew == [pc |-> "call", attempt |-> 1, result |-> None]

\* The call that the task of delivery d makes.
TaskCall(caller, d) ==
    IF caller = "msg_all" THEN KeywordCall(d, "message", "loud")
    ELSE NotificationCall(d, "final_text", "silent")

\* The tasks inside "async with semaphore".
Held(p) == {d \in DOMAIN p.tasks : p.tasks[d].pc \in {"limiter", "send"}}

\* Faulty variant: the semaphore lets every task in.
SemaphoreNeverLocked(p) == FALSE

\* asyncio.Semaphore(max_concurrency): no slot is free.
SemaphoreLocked(p) == Cardinality(Held(p)) >= p.max_concurrency

\* AsyncLimiter(rate_limit_per_sec, time_period=1), a leaky bucket of
\* capacity max_rate that leaks max_rate per second: one more send fits.
\* The unit of time is 1/max_rate second, in which the bucket leaks 1.
HasCapacity(p) == p.level + 1 <= p.max_rate

\* Faulty variant: the retry is made inside the two context managers, with
\* the slot and the token of the attempt that failed.
AfterAttemptInside(t, r) ==
    IF r = "ok" THEN [t EXCEPT !.pc = "done", !.result = Some("ok")]
    ELSE IF is_retryable_telegram_exception(Exc(r)) /\ t.attempt < StopAfterSendAttempt
    THEN [t EXCEPT !.pc = IF @ = "send" THEN "send" ELSE "semaphore",
                   !.attempt = @ + 1]
    ELSE [t EXCEPT !.pc = "done", !.result = Some(r)]

\* tenacity after attempt t.attempt has ended with r, "ok" or the class of
\* the exception raised: return, retry or re-raise.
AfterAttempt(t, r) ==
    IF r = "ok" THEN [t EXCEPT !.pc = "done", !.result = Some("ok")]
    ELSE IF is_retryable_telegram_exception(Exc(r)) /\ t.attempt < StopAfterSendAttempt
    THEN [t EXCEPT !.pc = "semaphore", !.attempt = @ + 1]
    ELSE [t EXCEPT !.pc = "done", !.result = Some(r)]

\* The task calls send_message_with_retry: the arguments are bound.
SendCall(d) ==
    /\ pipe.tasks[d].pc = "call"
    /\ LET b == Bind(TaskCall(pipe.caller, d))
           t == pipe.tasks[d]
       IN  pipe' = [pipe EXCEPT !.tasks[d] =
                       IF b.ok THEN [t EXCEPT !.pc = "semaphore"]
                       ELSE AfterAttempt(t, "TypeError")]
    /\ UNCHANGED <<core, edge, traced, sched, writer>>

\* async with semaphore: the task takes a slot when one is free.
SemaphoreAcquire(d) ==
    /\ pipe.tasks[d].pc = "semaphore"
    /\ ~SemaphoreLocked(pipe)
    /\ pipe' = [pipe EXCEPT !.tasks[d].pc = "limiter"]
    /\ UNCHANGED <<core, edge, traced, sched, writer>>

\* async with rate_limiter: the task takes a token when the bucket has room,
\* and the send starts.
LimiterAcquire(d) ==
    /\ pipe.tasks[d].pc = "limiter"
    /\ HasCapacity(pipe)
    /\ pipe' = [pipe EXCEPT !.tasks[d].pc = "send",
                            !.level = @ + 1]
    /\ UNCHANGED <<core, edge, traced, sched, writer>>

\* bot.send_message returns or raises; both context managers are left.
SendReturn(d, out) ==
    /\ pipe.tasks[d].pc = "send"
    /\ pipe' = [pipe EXCEPT !.tasks[d] = AfterAttempt(@, out)]
    /\ UNCHANGED <<core, edge, traced, sched, writer>>

\* One unit of time passes and the bucket leaks. The clock counts from the
\* first send of the broadcast.
TimePasses ==
    /\ pipe.since < MaxTime
    /\ pipe.level > 0 \/ pipe.since > 0
    /\ pipe' = [pipe EXCEPT !.since = @ + 1,
                            !.level = IF @ > 0 THEN @ - 1 ELSE 0]
    /\ UNCHANGED <<core, edge, traced, sched, writer>>

CoreIdle ==
    /\ statuses = <<>>
    /\ poll = PollIdle
    /\ fed = <<>>
    /\ cursor = None
    /\ users = [u \in UserIds |-> TRUE]
    /\ tick = TickIdle
    /\ broadcasts = [id \in 1..MaxRows |-> 0]
    /\ firstCursor = None

\* A broadcast of msg_all or of the notifier has created its tasks. The
\* environment sets the rate limit, and the concurrency limit or not.
InitSend ==
    /\ CoreIdle
    /\ EdgeIdle
    /\ traced = TracedNone
    /\ sched = SchedIdle
    /\ writer = WriterIdle
    /\ \E caller \in {"msg_all", "notification"}, c \in EnvValues, r \in EnvValues :
          /\ r # None
          /\ pipe = [caller |-> caller,
                     max_concurrency |-> MaxConcurrency(c),
                     max_rate |-> RateLimitPerSec(r),
                     tasks |-> [d \in Deliveries |-> TaskNew],
                     level |-> 0, since |-> 0]

NextSend ==
    \/ \E d \in Deliveries : SendCall(d)
    \/ \E d \in Deliveries : SemaphoreAcquire(d)
    \/ \E d \in Deliveries : LimiterAcquire(d)
    \/ \E d \in Deliveries, out \in SendOutcomes : SendReturn(d, out)
    \/ TimePasses

SpecSend == InitSend /\ [][NextSend]_vars

\* The broadcasts whose tasks contend for one or two slots.
InitAttempt == InitSend /\ pipe.max_concurrency <= 2

SpecAttempt == InitAttempt /\ [][NextSend]_vars

(***************************************************************************)
(* The functions of one delivery, each applied to inputs of its own and    *)
(* traced with its result, one call in a behaviour.                        *)
(***************************************************************************)
MaxDays == 1        \* whole days between two events
MaxMinutes == 125   \* minutes beyond the whole days
MaxLagHours == 1    \* hours of the clock between an event and the tick

SECS_IN_MINUTE == 60
MINS_IN_HOUR == 60
NIGHT_START_HOUR == 22
NIGHT_END_HOUR == 8
SecsInDay == 86400
HoursInDay == 24

\* timedelta.seconds of a difference of total seconds: the seconds left
\* after the whole days, which timedelta keeps in .days.
TimedeltaSeconds(total) == total % SecsInDay

\* (latest_status.date_created - previous_status.date_created).seconds
time_diff(latest_created, previous_created) ==
    Some(TimedeltaSeconds(latest_created - previous_created))

\* _send_status_notification, lines 41-62: the elapsed-time phrase of the
\* message, or None when the message carries none.
time_diff_text(td, from_status, to_status) ==
    IF td = None \/ td[1] = 0 THEN None
    ELSE LET diff_mins == td[1] \div SECS_IN_MINUTE
             text_suffix ==
                 IF diff_mins > MINS_IN_HOUR
                 THEN [hours |-> Some(diff_mins \div MINS_IN_HOUR),
                       minutes |-> IF diff_mins % MINS_IN_HOUR = 0 THEN None
                                   ELSE Some(diff_mins % MINS_IN_HOUR)]
                 ELSE [hours |-> None, minutes |-> Some(diff_mins)]
         IN  IF from_status /\ ~to_status
             THEN Some([phrase |-> "NOTIF_POWER_TURN_ON_TIME", suffix |-> text_suffix])
             ELSE IF ~from_status /\ to_status
             THEN Some([phrase |-> "NOTIF_POWER_TURN_OFF_TIME", suffix |-> text_suffix])
             ELSE None

\* is_nighttime, for the hour of datetime.now(KYIV_TZ).
is_nighttime(hour) == hour >= NIGHT_START_HOUR \/ hour < NIGHT_END_HOUR

\* _send_notification_task, line 89.
disable_sound(is_night, night_notif_sound_enabled) ==
    is_night /\ ~night_notif_sound_enabled

\* The seconds that can lie between two consecutive events.
Durations ==
    {d * SecsInDay + m * SECS_IN_MINUTE + sec :
        d \in 0..MaxDays, m \in 0..MaxMinutes, sec \in {0, 59}}

\* The phrase of a notification about two events that lie elapsed seconds
\* apart.
TracePhrase(elapsed, from_status, to_status) ==
    /\ traced = TracedNone
    /\ traced' = [fn |-> "time_diff_text",
                  args |-> <<elapsed, from_status, to_status>>,
                  result |-> time_diff_text(time_diff(elapsed, 0),
                                            from_status, to_status)]
    /\ UNCHANGED <<core, edge, pipe, sched, writer>>

\* The flag of a notification about an event created in the given hour of
\* the day, computed by a tick that runs lag hours of the clock later.
TraceSilent(hour, lag, night_notif_sound_enabled) ==
    /\ traced = TracedNone
    /\ traced' = [fn |-> "disable_sound",
                  args |-> <<hour, lag, night_notif_sound_enabled>>,
                  result |-> disable_sound(is_nighttime((hour + lag) % HoursInDay),
                                           night_notif_sound_enabled)]
    /\ UNCHANGED <<core, edge, pipe, sched, writer>>

\* The delivery task of user u, when the sends to u would end as outs.
TraceDelivery(u, outs) ==
    /\ traced = TracedNone
    /\ traced' = [fn |-> "send_notification_task",
                  args |-> <<u, outs>>,
                  result |-> send_notification_task(u, outs)]
    /\ UNCHANGED <<core, edge, pipe, sched, writer>>

\* send_message_with_retry called as msg_all calls it, when the sends to
\* user_id would end as outs.
TraceSend(user_id, outs) ==
    /\ traced = TracedNone
    /\ traced' = [fn |-> "send_message_with_retry",
                  args |-> <<user_id, outs>>,
                  result |-> send_message_with_retry(
                                 KeywordCall(user_id, "message", "loud"), outs, 1)]
    /\ UNCHANGED <<core, edge, pipe, sched, writer>>

\* The exceptions of an attempt: asyncio.wait_for timing out, and another.
DeviceErrors == {"TimeoutError", "ConnectionError"}

\* The device query of poll_once when the attempts would end as outs, which
\* holds one outcome more than the attempts allowed.
TraceSample(outs) ==
    /\ traced = TracedNone
    /\ traced' = [fn |-> "poll_once", args |-> outs,
                  result |-> is_device_on(outs, 1), value |-> Sample(outs)]
    /\ UNCHANGED <<core, edge, pipe, sched, writer>>

InitCalls ==
    /\ CoreIdle
    /\ EdgeIdle
    /\ pipe = PipeIdle
    /\ traced = TracedNone
    /\ sched = SchedIdle
    /\ writer = WriterIdle

NextCalls ==
    \/ \E elapsed \in Durations, from_status \in BOOLEAN, to_status \in BOOLEAN :
          TracePhrase(elapsed, from_status, to_status)
    \/ \E hour \in 0..(HoursInDay - 1), lag \in 0..MaxLagHours, enabled \in BOOLEAN :
          TraceSilent(hour, lag, enabled)
    \/ \E u \in UserIds, outs \in [1..StopAfterSendAttempt -> SendOutcomes] :
          TraceDelivery(u, outs)
    \/ \E u \in UserIds, outs \in [1..StopAfterSendAttempt -> SendOutcomes] :
          TraceSend(u, outs)
    \/ \E outs \in [1..(StopAfterAttempt + 1) -> DeviceOn \cup DeviceErrors] :
          TraceSample(outs)

SpecCalls == InitCalls /\ [][NextCalls]_vars

(***************************************************************************)
(* The notifier: check_and_send_notifications.                             *)
(***************************************************************************)

\* select(Status).where(Status.label == power_label)
\*     .order_by(desc(Status.date_created)).limit(2)
\* Faulty variant: the query has no WHERE clause on the label.
LatestTwoAnyLabel(table, label) == Limit(OrderByDateDesc(Rows(table)), 2)

LatestTwo(table, label) ==
    Limit(OrderByDateDesc({r \in Rows(table) : r.label = label}), 2)

\* Faulty variant: the cursor is not compared with the id of the latest event.
CheckStatusesNoGuard(cur, rows) ==
    IF rows = <<>> THEN [exit |-> "empty", cursor |-> cur]
    ELSE LET latest_status == rows[1]
             previous_status == IF Len(rows) > 1 THEN Some(rows[2]) ELSE None
             init == IF cur = None THEN Some(latest_status.id) ELSE cur
         IN  IF \/ previous_status = None
                \/ latest_status.value = previous_status[1].value
             THEN [exit |-> "no_change", cursor |-> Some(latest_status.id)]
             ELSE [exit |-> "changed", cursor |-> init]

\* Faulty variant: an unset cursor is not set to the latest event first.
CheckStatusesNoInit(cur, rows) ==
    IF rows = <<>> THEN [exit |-> "empty", cursor |-> cur]
    ELSE LET latest_status == rows[1]
             previous_status == IF Len(rows) > 1 THEN Some(rows[2]) ELSE None
         IN  IF cur # None /\ Some(latest_status.id) = cur
             THEN [exit |-> "same", cursor |-> cur]
             ELSE IF \/ previous_status = None
                     \/ latest_status.value = previous_status[1].value
             THEN [exit |-> "no_change", cursor |-> Some(latest_status.id)]
             ELSE [exit |-> "changed", cursor |-> cur]

\* Faulty variant: a first event is taken for a transition; the tick neither
\* sets the unset cursor first nor ends for want of a previous event.
CheckStatusesFirstEvent(cur, rows) ==
    IF rows = <<>> THEN [exit |-> "empty", cursor |-> cur]
    ELSE LET latest_status == rows[1]
             previous_status == IF Len(rows) > 1 THEN Some(rows[2]) ELSE None
         IN  IF cur # None /\ Some(latest_status.id) = cur
             THEN [exit |-> "same", cursor |-> cur]
             ELSE IF /\ previous_status # None
                     /\ latest_status.value = previous_status[1].value
             THEN [exit |-> "no_change", cursor |-> Some(latest_status.id)]
             ELSE [exit |-> "changed", cursor |-> cur]

\* Faulty variant: without a transition the cursor stays where it was.
CheckStatusesNoAdvance(cur, rows) ==
    IF rows = <<>> THEN [exit |-> "empty", cursor |-> cur]
    ELSE LET latest_status == rows[1]
             previous_status == IF Len(rows) > 1 THEN Some(rows[2]) ELSE None
             init == IF cur = None THEN Some(latest_status.id) ELSE cur
         IN  IF init # None /\ Some(latest_status.id) = init
             THEN [exit |-> "same", cursor |-> init]
             ELSE IF \/ previous_status = None
                     \/ latest_status.value = previous_status[1].value
             THEN [exit |-> "no_change", cursor |-> init]
             ELSE [exit |-> "changed", cursor |-> init]

\* Lines 142-165: what the tick decides from the rows it read and the cursor.
CheckStatuses(cur, rows) ==
    IF rows = <<>> THEN [exit |-> "empty", cursor |-> cur]
    ELSE LET latest_status == rows[1]
             previous_status == IF Len(rows) > 1 THEN Some(rows[2]) ELSE None
             init == IF cur = None THEN Some(latest_status.id) ELSE cur
         IN  IF init # None /\ Some(latest_status.id) = init
             THEN [exit |-> "same", cursor |-> init]
             ELSE IF \/ previous_status = None
                     \/ latest_status.value = previous_status[1].value
             THEN [exit |-> "no_change", cursor |-> Some(latest_status.id)]
             ELSE [exit |-> "changed", cursor |-> init]

SetCursor(new) ==
    /\ cursor' = new
    /\ firstCursor' = IF cursor = None THEN new ELSE firstCursor

End(exit) == [tick EXCEPT !.pc = "end", !.exit = Some(exit)]

\* The tick starts: the query for the two most recent power events and the
\* cursor checks. A failing query raises into the handler of line 217.
NotifyRead(dbok) ==
    /\ tick.pc = "idle"
    /\ IF ~dbok
       THEN /\ tick' = [TickIdle EXCEPT !.pc = "end", !.exit = Some("error"), !.cursor0 = cursor]
            /\ UNCHANGED <<cursor, firstCursor>>
       ELSE LET rows == LatestTwo(statuses, PowerLabel)
                d == CheckStatuses(cursor, rows)
                read == [TickIdle EXCEPT
                            !.cursor0 = cursor,
                            !.latest = IF rows = <<>> THEN None ELSE Some(rows[1]),
                            !.previous = IF Len(rows) > 1 THEN Some(rows[2]) ELSE None]
            IN  /\ SetCursor(d.cursor)
                /\ tick' = IF d.exit = "changed"
                           THEN [read EXCEPT !.pc = "users"]
                           ELSE [read EXCEPT !.pc = "end", !.exit = Some(d.exit)]
    /\ UNCHANGED <<statuses, poll, fed, users, broadcasts>>
    /\ UNCHANGED aux

\* Faulty variant: the query has no WHERE clause, every user is read.
AllUsers(table) == DOMAIN table

\* select(User).where(User.notifs_enabled == True)
EnabledUsers(table) == {u \in DOMAIN table : table[u]}

\* Faulty variant: the handler of the exception moves the cursor to the
\* event the tick has read.
CursorAfterErrorAdvanced(cur, t) == Some(t.latest[1].id)

\* The handler of an exception of the tick logs it; the cursor stays.
CursorAfterError(cur, t) == cur

\* Lines 167-203: the subscribers are read and one task per subscriber is
\* created; without subscribers the cursor moves and the tick ends.
NotifyUsers(dbok) ==
    /\ tick.pc = "users"
    /\ IF ~dbok
       THEN /\ tick' = End("error")
            /\ SetCursor(CursorAfterError(cursor, tick))
            /\ UNCHANGED broadcasts
       ELSE LET to == EnabledUsers(users)
            IN  IF to = {}
                THEN /\ SetCursor(Some(tick.latest[1].id))
                     /\ tick' = End("no_users")
                     /\ UNCHANGED broadcasts
                ELSE /\ tick' = [tick EXCEPT !.pc = "gather", !.pending = to]
                     /\ broadcasts' =
                            [broadcasts EXCEPT ![tick.latest[1].id] = @ + 1]
                     /\ UNCHANGED <<cursor, firstCursor>>
    /\ UNCHANGED <<statuses, poll, fed, users>>
    /\ UNCHANGED aux

\* Faulty variant: a task that fails cancels the tasks still pending.
TaskDoneCancelling(t, u, r) ==
    [t EXCEPT !.pending = IF r.delivery = "failed" THEN {} ELSE @ \ {u},
              !.outcome = (u :> r.delivery) @@ @,
              !.results = (u :> (IF r.raised = None THEN "None" ELSE "Exception")) @@ @]

\* The task of user u has run to its end: its outcome, and its entry in the
\* list that gather returns.
TaskDone(t, u, r) ==
    [t EXCEPT !.pending = @ \ {u},
              !.outcome = (u :> r.delivery) @@ @,
              !.results = (u :> (IF r.raised = None THEN "None" ELSE "Exception")) @@ @]

\* One delivery task runs; outs are the outcomes its sends would have.
NotifyTask(u, outs) ==
    /\ tick.pc = "gather"
    /\ u \in tick.pending
    /\ tick' = TaskDone(tick, u, send_notification_task(u, outs))
    /\ UNCHANGED <<statuses, poll, fed, cursor, users, broadcasts, firstCursor>>
    /\ UNCHANGED aux

\* Faulty variant: the cursor is left where it was after the fanout.
CursorAfterFanoutKept(cur, t) == cur

\* Faulty variant: the cursor moves only when no delivery of the fanout failed.
CursorAfterFanoutIfAllSent(cur, t) ==
    IF \E u \in DOMAIN t.outcome : t.outcome[u] = "failed"
    THEN cur ELSE Some(t.latest[1].id)

\* Line 212: the cursor after the fanout of tick t.
CursorAfterFanout(cur, t) == Some(t.latest[1].id)

\* Lines 205-209: the results of gather that the coordinator counts as failed.
ReportedFailures(results) ==
    Cardinality({u \in DOMAIN results : results[u] = "Exception"})

ReportedSuccesses(results) ==
    Cardinality({u \in DOMAIN results : results[u] # "Exception"})

\* Faulty variant: the wait ends with the first task that has finished.
GatherReturnedFirst(t) == t.pending = {} \/ DOMAIN t.outcome # {}
\* Line 204: await asyncio.gather(*tasks) returns when every task has ended.
GatherReturned(t) == t.pending = {}

\* Lines 204-215: gather has returned; the cursor moves to the event.
NotifyGathered ==
    /\ tick.pc = "gather"
    /\ GatherReturned(tick)
    /\ SetCursor(CursorAfterFanout(cursor, tick))
    /\ tick' = End("fanout")
    /\ UNCHANGED <<statuses, poll, fed, users, broadcasts>>
    /\ UNCHANGED aux

\* The tick returns; the job queue runs the next one after the interval.
\* run_repeating keeps one running instance of the job, so a tick starts
\* only when the one before it has returned.
NotifyReturn ==
    /\ tick.pc = "end"
    /\ tick' = TickIdle
    /\ UNCHANGED <<statuses, poll, fed, cursor, users, broadcasts, firstCursor>>
    /\ UNCHANGED aux

\* A writer of power events other than poll_once.
AdminInsert(value) ==
    /\ Len(statuses) < MaxRows
    /\ statuses' = Insert(statuses, Status(statuses, value, PowerLabel))
    /\ UNCHANGED <<poll, fed, cursor, users, tick, broadcasts, firstCursor>>
    /\ UNCHANGED aux

(***************************************************************************)
(* The whole system.                                                       *)
(***************************************************************************)
Init ==
    /\ statuses = <<>>
    /\ poll = PollIdle
    /\ fed = <<>>
    /\ cursor = None
    /\ users \in [UserIds -> BOOLEAN]
    /\ tick = TickIdle
    /\ broadcasts = [id \in 1..MaxRows |-> 0]
    /\ firstCursor = None
    /\ AuxIdle

SendOutcomeSeqs == [1..StopAfterSendAttempt -> SendOutcomes]

Next ==
    \/ \E k \in 0..StopAfterAttempt, r \in DeviceOn : PollRead(k, r)
    \/ PollWrite
    \/ \E v \in BOOLEAN : AdminInsert(v)
    \/ \E dbok \in BOOLEAN : NotifyRead(dbok)
    \/ \E dbok \in BOOLEAN : NotifyUsers(dbok)
    \/ \E u \in UserIds, outs \in SendOutcomeSeqs : NotifyTask(u, outs)
    \/ NotifyGathered
    \/ NotifyReturn

Spec == Init /\ [][Next]_vars

(***************************************************************************)
(* The notifier beside the handler with which a subscriber switches the    *)
(* notifications on and off.                                               *)
(***************************************************************************)

\* handle_notification_choice: the answer of user u is stored and committed.
handle_notification_choice(u, notifs_enabled) ==
    /\ users' = [users EXCEPT ![u] = notifs_enabled]
    /\ UNCHANGED <<statuses, poll, fed, cursor, tick, broadcasts, firstCursor>>
    /\ UNCHANGED aux

\* The notifier has set its cursor to the first power event and a second
\* one, a transition, has been appended since.
InitFanout ==
    /\ \E v \in BOOLEAN :
          LET first == Insert(<<>>, Status(<<>>, v, PowerLabel))
          IN  statuses = Insert(first, Status(first, ~v, PowerLabel))
    /\ poll = PollIdle
    /\ fed = <<>>
    /\ cursor = Some(1)
    /\ users \in [UserIds -> BOOLEAN]
    /\ tick = TickIdle
    /\ broadcasts = [id \in 1..MaxRows |-> 0]
    /\ firstCursor = Some(1)
    /\ AuxIdle

NextFanout ==
    \/ \E v \in BOOLEAN : AdminInsert(v)
    \/ \E dbok \in BOOLEAN : NotifyRead(dbok)
    \/ \E dbok \in BOOLEAN : NotifyUsers(dbok)
    \/ \E u \in UserIds, outs \in SendOutcomeSeqs : NotifyTask(u, outs)
    \/ NotifyGathered
    \/ NotifyReturn
    \/ \E u \in UserIds, notifs_enabled \in BOOLEAN :
          handle_notification_choice(u, notifs_enabled)

SpecFanout == InitFanout /\ [][NextFanout]_vars

(***************************************************************************)
(* The two loops with their failing ticks: run_polling_loop around         *)
(* poll_once, and the job queue around check_and_send_notifications.       *)
(***************************************************************************)

\* Faulty variant: the exception leaves the loop, which ends.
LoopRaise(p) == [PollIdle EXCEPT !.pc = "stopped"]

\* run_polling_loop, lines 108-110: an exception of poll_once is caught and
\* logged; the loop goes on to its sleep.
LoopExcept(p) == [PollIdle EXCEPT !.pc = "caught"]

\* poll_once raises: the session fails while the last value is read, or
\* while the event is inserted and committed. Nothing is committed.
PollRaise ==
    /\ poll.pc \in {"idle", "read"}
    /\ poll' = LoopExcept(poll)
    /\ UNCHANGED <<statuses, fed, cursor, users, tick, broadcasts, firstCursor>>
    /\ UNCHANGED aux

\* asyncio.sleep(interval_s) after the failed tick; the next one can start.
PollSleep ==
    /\ poll.pc = "caught"
    /\ poll' = PollIdle
    /\ UNCHANGED <<statuses, fed, cursor, users, tick, broadcasts, firstCursor>>
    /\ UNCHANGED aux

NextLoops ==
    \/ \E k \in 0..StopAfterAttempt, r \in DeviceOn : PollRead(k, r)
    \/ PollWrite
    \/ PollRaise
    \/ PollSleep
    \/ \E dbok \in BOOLEAN : NotifyRead(dbok)
    \/ \E dbok \in BOOLEAN : NotifyUsers(dbok)
    \/ \E u \in UserIds, outs \in SendOutcomeSeqs : NotifyTask(u, outs)
    \/ NotifyGathered
    \/ NotifyReturn

\* The event loop runs every coroutine that can go on, every sleep ends
\* and the job queue starts the job after every interval: no step that
\* stays possible is put off for ever. A tick need not fail.
FairLoops ==
    /\ WF_vars(\E k \in 0..StopAfterAttempt, r \in DeviceOn : PollRead(k, r))
    /\ WF_vars(PollWrite)
    /\ WF_vars(PollSleep)
    /\ WF_vars(\E dbok \in BOOLEAN : NotifyRead(dbok))
    /\ WF_vars(\E dbok \in BOOLEAN : NotifyUsers(dbok))
    /\ WF_vars(\E u \in UserIds, outs \in SendOutcomeSeqs : NotifyTask(u, outs))
    /\ WF_vars(NotifyGathered)
    /\ WF_vars(NotifyReturn)

SpecLoops == InitFanout /\ [][NextLoops]_vars /\ FairLoops

(***************************************************************************)
(* The two loops as their schedulers see them: when a tick is started.     *)
(* A tick is taken as a whole here, from its start to its return.          *)
(***************************************************************************)
MaxDue == 4         \* times the interval of a loop elapses

\* job_queue.run_repeating(notification_job, interval, first=1) names no
\* job_kwargs: the job runs with the scheduler's default of one instance.
MaxInstances == 1

\* Faulty variant: a due run is started whatever is running.
SubmitJobAlways(s) ==
    [s EXCEPT !.due = @ + 1, !.running = @ + 1, !.started = @ + 1]

\* The interval of the job has elapsed: the run is started, or it is
\* skipped when the instances allowed are running; it is not kept.
SubmitJob(s) ==
    IF s.running < MaxInstances
    THEN [s EXCEPT !.due = @ + 1, !.running = @ + 1, !.started = @ + 1]
    ELSE [s EXCEPT !.due = @ + 1, !.skipped = @ + 1]

JobDue ==
    /\ sched.due < MaxDue
    /\ sched' = SubmitJob(sched)
    /\ UNCHANGED <<core, edge, pipe, traced, writer>>

\* check_and_send_notifications returns, as it does on every path.
JobReturn ==
    /\ sched.running > 0
    /\ sched' = [sched EXCEPT !.running = @ - 1]
    /\ UNCHANGED <<core, edge, pipe, traced, writer>>

\* run_polling_loop: the sleep ends and the loop awaits poll_once.
LoopPoll ==
    /\ sched.loop = "sleep"
    /\ sched.polls < MaxDue
    /\ sched' = [sched EXCEPT !.loop = "poll_once", !.active = @ + 1,
                              !.polls = @ + 1]
    /\ UNCHANGED <<core, edge, pipe, traced, writer>>

\* poll_once returns or raises into the handler of the loop, which goes on
\* to asyncio.sleep(interval_s).
LoopSleep ==
    /\ sched.loop = "poll_once"
    /\ sched' = [sched EXCEPT !.loop = "sleep", !.active = @ - 1]
    /\ UNCHANGED <<core, edge, pipe, traced, writer>>

InitSchedule ==
    /\ CoreIdle
    /\ EdgeIdle
    /\ pipe = PipeIdle
    /\ traced = TracedNone
    /\ writer = WriterIdle
    /\ sched = [due |-> 0, running |-> 0, started |-> 0, skipped |-> 0,
                loop |-> "sleep", active |-> 0, polls |-> 0]

NextSchedule == JobDue \/ JobReturn \/ LoopPoll \/ LoopSleep

SpecSchedule == InitSchedule /\ [][NextSchedule]_vars

(***************************************************************************)
(* Two runs of record_event_if_changed at once: the one of the polling     *)
(* loop and one started by hand, each in a session of its own.             *)
(***************************************************************************)

\* The second run reads the last value.
WriterRead(value) ==
    /\ writer.pc = "idle"
    /\ Len(statuses) < MaxRows
    /\ writer' = [pc |-> "read", value |-> value,
                  last_value |-> get_last_event_value(statuses)]
    /\ UNCHANGED <<core, edge, pipe, traced, sched>>

\* The second run inserts and commits, or returns without an insert.
WriterWrite ==
    /\ writer.pc = "read"
    /\ Len(statuses) < MaxRows
    /\ statuses' =
           record_event_if_changed(statuses, writer.last_value, writer.value).table
    /\ writer' = WriterIdle
    /\ UNCHANGED <<poll, fed, cursor, users, tick, broadcasts, firstCursor>>
    /\ UNCHANGED <<pipe, traced, sched, edge>>

InitRace ==
    /\ CoreIdle
    /\ AuxIdle

NextRace ==
    \/ \E k \in 0..StopAfterAttempt, r \in DeviceOn : PollRead(k, r)
    \/ PollWrite
    \/ \E value \in BOOLEAN : WriterRead(value)
    \/ WriterWrite

SpecRace == InitRace /\ [][NextRace]_vars

(***************************************************************************)
(* The two runs of record_event_if_changed with the time of their          *)
(* transactions. The SELECT of line 53 begins the transaction of the       *)
(* session; date_created of the row inserted in it is the server's now(),  *)
(* the time at which the transaction began, and its id is drawn from the   *)
(* sequence when the row is inserted (src/db/models/status.py).            *)
(***************************************************************************)
MaxClock == 3

\* The conditional insert in a transaction begun at time now.
record_in_transaction(table, last_value, value, now) ==
    LET res == record_event_if_changed(table, last_value, value)
    IN  IF res.changed
        THEN [res.table EXCEPT ![Len(res.table)].date_created = now]
        ELSE table

TxPollRead(k, r) ==
    /\ poll.pc = "idle"
    /\ clock < MaxClock
    /\ clock' = clock + 1
    /\ poll' = [pc |-> "read", value |-> Sample(Attempts(k, r)),
                last_value |-> get_last_event_value(statuses), now |-> clock']
    /\ UNCHANGED <<statuses, fed, cursor, users, tick, broadcasts, firstCursor>>
    /\ UNCHANGED <<pipe, traced, sched, writer, heartbeat, startup>>

TxPollWrite ==
    /\ poll.pc = "read"
    /\ statuses' = record_in_transaction(
                       statuses, poll.last_value, poll.value, poll.now)
    /\ poll' = PollIdle
    /\ UNCHANGED <<fed, cursor, users, tick, broadcasts, firstCursor>>
    /\ UNCHANGED aux

TxWriterRead(value) ==
    /\ writer.pc = "idle"
    /\ clock < MaxClock
    /\ clock' = clock + 1
    /\ writer' = [pc |-> "read", value |-> value,
                  last_value |-> get_last_event_value(statuses), now |-> clock']
    /\ UNCHANGED <<core, pipe, traced, sched, heartbeat, startup>>

TxWriterWrite ==
    /\ writer.pc = "read"
    /\ statuses' = record_in_transaction(
                       statuses, writer.last_value, writer.value, writer.now)
    /\ writer' = WriterIdle
    /\ UNCHANGED <<poll, fed, cursor, users, tick, broadcasts, firstCursor>>
    /\ UNCHANGED <<pipe, traced, sched, edge>>

NextOrder ==
    \/ \E k \in 0..StopAfterAttempt, r \in DeviceOn : TxPollRead(k, r)
    \/ TxPollWrite
    \/ \E value \in BOOLEAN : TxWriterRead(value)
    \/ TxWriterWrite

SpecOrder == InitRace /\ [][NextOrder]_vars

(***************************************************************************)
(* The heartbeat ingress: pi_client sends pings, listen_heartbeat of       *)
(* pi_server stores the timestamp of an accepted ping in the one row of    *)
(* table heartbeats (src/pi_server/main.py, src/pi_client/main.py).        *)
(***************************************************************************)
MaxTimestamp == 3
Tokens == {"", "secret", "wrong"}
Schemes == {"Bearer", "Basic"}

\* The Authorization header of a request: none, or a scheme and credentials.
Authorizations == {None} \cup {Some(<<s, c>>) : s \in Schemes, c \in Tokens}

\* The status of HTTPBearer's rejection: 403 or 401, by the library's version.
NotAuthenticated == {401, 403}

\* The headers pi_client builds: an Authorization header only with a token.
client_headers(heartbeat_token) ==
    IF heartbeat_token # "" THEN Some(<<"Bearer", heartbeat_token>>) ELSE None

\* auth_provider = HTTPBearer(): the credentials of a Bearer header, or the
\* rejection of the request before the handler runs.
auth_provider(authorization, rejected) ==
    IF authorization = None \/ authorization[1][2] = ""
    THEN [ok |-> FALSE, status |-> rejected]
    ELSE IF authorization[1][1] # "Bearer"
         THEN [ok |-> FALSE, status |-> rejected]
         ELSE [ok |-> TRUE, credentials |-> authorization[1][2]]

\* _validate_token: the token is the configured one.
validate_token(HEARTBEAT_TOKEN, token) == token = HEARTBEAT_TOKEN

\* listen_heartbeat with its dependencies: the status of the response and
\* the row after the request.
listen_heartbeat(h, authorization, timestamp, rejected) ==
    LET token == auth_provider(authorization, rejected)
    IN  IF ~token.ok
        THEN [status |-> token.status, row |-> h.row]
        ELSE IF h.HEARTBEAT_TOKEN # ""
                /\ ~validate_token(h.HEARTBEAT_TOKEN, token.credentials)
             THEN [status |-> 401, row |-> h.row]
             ELSE [status |-> 200, row |-> Some(timestamp)]

\* A request of any client reaches the endpoint; the handler declares no
\* label parameter, so the label of the query string is dropped.  received
\* keeps, for each label, the timestamp of its last ping answered 200.
Request(authorization, timestamp, rejected, label) ==
    /\ LET res == listen_heartbeat(heartbeat, authorization, timestamp, rejected)
       IN  /\ heartbeat' =
                 [heartbeat EXCEPT
                    !.row = res.row,
                    !.received[label] =
                       IF res.status = 200 THEN Some(timestamp) ELSE @]
           /\ traced' = [fn |-> "listen_heartbeat", authorization |-> authorization,
                         timestamp |-> timestamp, status |-> res.status]
    /\ UNCHANGED <<core, pipe, sched, writer, startup, clock>>

\* One round of pi_client's loop: the ping with the headers it has built.
PiClientPing(timestamp, rejected, heartbeat_label) ==
    Request(client_headers(heartbeat.heartbeat_token), timestamp, rejected,
            heartbeat_label)

InitHeartbeat ==
    /\ CoreIdle
    /\ pipe = PipeIdle
    /\ traced = TracedNone
    /\ sched = SchedIdle
    /\ writer = WriterIdle
    /\ startup = StartupIdle
    /\ clock = 0
    /\ \E st \in {"", "secret"}, ct \in Tokens :
          heartbeat = [HeartbeatIdle EXCEPT !.HEARTBEAT_TOKEN = st,
                                            !.heartbeat_token = ct]

NextHeartbeat ==
    \/ \E a \in Authorizations, ts \in 1..MaxTimestamp, rej \in NotAuthenticated,
          label \in HeartbeatLabels :
          Request(a, ts, rej, label)
    \/ \E ts \in 1..MaxTimestamp, rej \in NotAuthenticated,
          label \in HeartbeatLabels :
          PiClientPing(ts, rej, label)

SpecHeartbeat == InitHeartbeat /\ [][NextHeartbeat]_vars

(***************************************************************************)
(* The heartbeat-staleness source. No code under src/ reads table          *)
(* heartbeats; the source that samples it is modelled from the             *)
(* specification: powered while the last ping is no older than the         *)
(* staleness multiplier times the poll interval, no sample without a ping. *)
(* Time is counted in poll intervals.                                      *)
(***************************************************************************)
StalenessMultiplier == 5
Nows == 1..(MaxTimestamp + StalenessMultiplier + 1)

\* Faulty variant: without a heartbeat the device is reported off.
heartbeat_sample_off(row, now) ==
    IF row = None THEN Some(FALSE)
    ELSE Some(now - row[1] <= StalenessMultiplier)
\* The sample of a tick: none without a heartbeat row.
heartbeat_sample(row, now) ==
    IF row = None THEN None
    ELSE Some(now - row[1] <= StalenessMultiplier)

\* One tick of the polling loop on this source: a tick without a sample is
\* skipped, any other hands its reading to record_event_if_changed.
HeartbeatTick(now) ==
    /\ Len(fed) < MaxRows
    /\ LET s == heartbeat_sample(heartbeat.row, now)
       IN  /\ IF s = None
              THEN UNCHANGED <<statuses, fed>>
              ELSE /\ statuses' = record_event_if_changed(
                                      statuses, get_last_event_value(statuses),
                                      s[1]).table
                   /\ fed' = Append(fed, s[1])
           /\ traced' = [fn |-> "heartbeat_sample", now |-> now, result |-> s]
    /\ UNCHANGED <<poll, cursor, users, tick, broadcasts, firstCursor>>
    /\ UNCHANGED <<pipe, sched, writer, edge>>

\* A deployment on the heartbeat source from its cold start, without tokens.
\* The events of the detector carry no label, so that the notifier's query
\* for the power events returns no row and its tick ends after the query.
InitColdStart == Init /\ users = [u \in UserIds |-> TRUE]

\* One agent pings, under the label it was started with.
NextColdStart ==
    \/ \E a \in Authorizations, ts \in 1..MaxTimestamp, rej \in NotAuthenticated :
          Request(a, ts, rej, "pi-1")
    \/ \E now \in Nows : HeartbeatTick(now)
    \/ \E dbok \in BOOLEAN : NotifyRead(dbok)
    \/ NotifyReturn

SpecColdStart == InitColdStart /\ [][NextColdStart]_vars

(***************************************************************************)
(* The start of the scheduler process: run_polling_loop reads its settings *)
(* before it creates the engine and enters the loop (src/scheduler/main.py *)
(* lines 90-101, src/utils.py).                                            *)
(***************************************************************************)
\* The required settings, in the order run_polling_loop reads them.
RequiredEnv == <<"TAPO_EMAIL", "TAPO_PASSWORD", "TAPO_DEVICE_IP", "POSTGRES_PASSWORD">>

\* A setting is unset, set to the empty string or set to a value.
EnvStrings == {None, Some(""), Some("x")}

\* Faulty variant: only an unset variable is an error, an empty one passes.
require_env_unset(env, name) ==
    IF env[name] = None THEN [ok |-> FALSE, error |-> name]
    ELSE [ok |-> TRUE, value |-> env[name][1]]
\* _require_env: os.getenv(name), RuntimeError if unset or empty.
require_env(env, name) ==
    IF env[name] = None \/ env[name] = Some("")
    THEN [ok |-> FALSE, error |-> name]
    ELSE [ok |-> TRUE, value |-> env[name][1]]

\* Lines 91-101: the first setting whose _require_env raises ends the
\* process with a RuntimeError; otherwise the loop is entered.
RECURSIVE run_polling_loop(_, _)
run_polling_loop(env, i) ==
    IF i > Len(RequiredEnv) THEN [pc |-> "loop", env |-> env]
    ELSE LET r == require_env(env, RequiredEnv[i])
         IN  IF r.ok THEN run_polling_loop(env, i + 1)
             ELSE [pc |-> "raised", env |-> env, error |-> r.error]

\* start_scheduler: asyncio.run(run_polling_loop()).
StartScheduler ==
    /\ startup.pc = "none"
    /\ startup' = run_polling_loop(startup.env, 1)
    /\ UNCHANGED <<core, pipe, traced, sched, writer, heartbeat, clock>>

\* The ticks of the loop, once the loop is entered.
LoopPollRead(k, r) == startup.pc = "loop" /\ PollRead(k, r)
LoopPollWrite == startup.pc = "loop" /\ PollWrite
LoopPollRaise == startup.pc = "loop" /\ PollRaise
LoopPollSleep == startup.pc = "loop" /\ PollSleep

InitStartup ==
    /\ CoreIdle
    /\ pipe = PipeIdle
    /\ traced = TracedNone
    /\ sched = SchedIdle
    /\ writer = WriterIdle
    /\ heartbeat = HeartbeatIdle
    /\ clock = 0
    /\ \E env \in [{RequiredEnv[i] : i \in 1..Len(RequiredEnv)} -> EnvStrings] :
          startup = [pc |-> "none", env |-> env]

NextStartup ==
    \/ StartScheduler
    \/ \E k \in 0..StopAfterAttempt, r \in DeviceOn : LoopPollRead(k, r)
    \/ LoopPollWrite
    \/ LoopPollRaise
    \/ LoopPollSleep

SpecStartup == InitStartup /\ [][NextStartup]_vars

(***************************************************************************)
(* The schedule of the generator.                                          *)
(***************************************************************************)

\* The intervals <<start_time, end_time, is_on>> of a day, in minutes.
GEN_WORKTIME_SCHEDULE_WEEKDAY ==
    << <<0, 6 * 60 + 30, FALSE>>,
       <<6 * 60 + 30, 10 * 60, TRUE>>,
       <<10 * 60, 11 * 60, FALSE>>,
       <<11 * 60, 14 * 60, TRUE>>,
       <<14 * 60, 15 * 60, FALSE>>,
       <<15 * 60, 18 * 60 + 30, TRUE>>,
       <<18 * 60 + 30, 19 * 60, FALSE>>,
       <<19 * 60, 21 * 60, TRUE>>,
       <<21 * 60, 22 * 60, FALSE>>,
       <<22 * 60, 24 * 60, TRUE>> >>

\* Faulty variant: the first break ends at 06:30 as on a weekday, and the
\* minutes from 06:30 to 07:00 are in no interval.
GEN_WORKTIME_SCHEDULE_WEEKEND_GAP ==
    << <<0, 6 * 60 + 30, FALSE>>,
       <<7 * 60, 10 * 60, TRUE>>,
       <<10 * 60, 11 * 60, FALSE>>,
       <<11 * 60, 14 * 60, TRUE>>,
       <<14 * 60, 15 * 60, FALSE>>,
       <<15 * 60, 18 * 60 + 30, TRUE>>,
       <<18 * 60 + 30, 19 * 60, FALSE>>,
       <<19 * 60, 21 * 60, TRUE>>,
       <<21 * 60, 22 * 60, FALSE>>,
       <<22 * 60, 24 * 60, TRUE>> >>

GEN_WORKTIME_SCHEDULE_WEEKEND ==
    << <<0, 7 * 60, FALSE>>,
       <<7 * 60, 10 * 60, TRUE>>,
       <<10 * 60, 11 * 60, FALSE>>,
       <<11 * 60, 14 * 60, TRUE>>,
       <<14 * 60, 15 * 60, FALSE>>,
       <<15 * 60, 18 * 60 + 30, TRUE>>,
       <<18 * 60 + 30, 19 * 60, FALSE>>,
       <<19 * 60, 21 * 60, TRUE>>,
       <<21 * 60, 22 * 60, FALSE>>,
       <<22 * 60, 24 * 60, TRUE>> >>

\* datetime.weekday(): Monday is 0 and Sunday is 6.
Weekdays == 0..6

\* _get_gen_schedule_for_date
get_gen_schedule_for_date(weekday) ==
    LET is_weekend == weekday >= 5
    IN  IF is_weekend THEN GEN_WORKTIME_SCHEDULE_WEEKEND
        ELSE GEN_WORKTIME_SCHEDULE_WEEKDAY

\* The loop of get_generator_schedule_status from interval i on: is_on of
\* the first interval that holds current_minutes, or the fallback.
RECURSIVE schedule_status_from(_, _, _)
schedule_status_from(schedule, current_minutes, i) ==
    IF i > Len(schedule) THEN [fallback |-> TRUE, is_on |-> FALSE]
    ELSE IF schedule[i][1] <= current_minutes /\ current_minutes < schedule[i][2]
    THEN [fallback |-> FALSE, is_on |-> schedule[i][3]]
    ELSE schedule_status_from(schedule, current_minutes, i + 1)

get_generator_schedule_status(weekday, hour, minute) ==
    schedule_status_from(get_gen_schedule_for_date(weekday), hour * 60 + minute, 1)

\* The loop of get_generator_time_to_next_switch from interval i on: the
\* minutes to the end of the first interval that holds current_minutes, or
\* the fallback timedelta(0).
RECURSIVE time_to_next_switch_from(_, _, _)
time_to_next_switch_from(schedule, current_minutes, i) ==
    IF i > Len(schedule) THEN [fallback |-> TRUE, minutes |-> 0]
    ELSE IF schedule[i][1] <= current_minutes /\ current_minutes < schedule[i][2]
    THEN [fallback |-> FALSE, minutes |-> schedule[i][2] - current_minutes]
    ELSE time_to_next_switch_from(schedule, current_minutes, i + 1)

get_generator_time_to_next_switch(weekday, hour, minute) ==
    time_to_next_switch_from(get_gen_schedule_for_date(weekday), hour * 60 + minute, 1)

\* The two functions called with a time of the day weekday.
TraceGenerator(weekday, hour, minute) ==
    /\ traced = TracedNone
    /\ traced' = [fn |-> "generator",
                  args |-> <<weekday, hour, minute>>,
                  status |-> get_generator_schedule_status(weekday, hour, minute),
                  left |-> get_generator_time_to_next_switch(weekday, hour, minute)]
    /\ UNCHANGED <<core, edge, pipe, sched, writer>>

InitGenerator == CoreIdle /\ AuxIdle

NextGenerator ==
    \E weekday \in Weekdays, hour \in 0..(HoursInDay - 1),
       minute \in 0..(MINS_IN_HOUR - 1) :
       TraceGenerator(weekday, hour, minute)

SpecGenerator == InitGenerator /\ [][NextGenerator]_vars

\* The rows of the heartbeat table: none, or the row with id HEARTBEAT_ID.
HEARTBEAT_ID == 1
HeartbeatRows ==
    IF heartbeat.row = None THEN {}
    ELSE {[id |-> HEARTBEAT_ID, timestamp |-> heartbeat.row[1]]}

(***************************************************************************)
(* Properties of the detector.                                             *)
(***************************************************************************)
Reverse(s) == [i \in 1..Len(s) |-> s[Len(s) + 1 - i]]

\* The events of one label, in creation order.
LogOf(table, label) ==
    Reverse(OrderByDateDesc({r \in Rows(table) : r.label = label}))

Values(log) == [i \in 1..Len(log) |-> log[i].value]

Labels == {NoLabel, PowerLabel}

NoAdjacentEqual(log) ==
    \A i \in 1..(Len(log) - 1) : log[i].value # log[i + 1].value

\* The readings with consecutive duplicates collapsed.
RECURSIVE Collapse(_)
Collapse(s) ==
    IF Len(s) <= 1 THEN s
    ELSE LET front == Collapse(SubSeq(s, 1, Len(s) - 1))
         IN  IF s[Len(s)] = front[Len(front)] THEN front
             ELSE Append(front, s[Len(s)])

\* C1: whatever readings were fed to record_event_if_changed, one at a time,
\* no label's event log holds two events adjacent in creation order with the
\* same value.
C1_NoAdjacentDuplicates ==
    \A label \in Labels : NoAdjacentEqual(LogOf(statuses, label))

\* A repeated reading was fed and the log still holds several transitions.
C1_Witness ==
    /\ Len(statuses) >= 3
    /\ \E i \in 1..(Len(fed) - 1) : fed[i] = fed[i + 1]

\* C2: from an empty log, the recorded values are the fed readings with
\* consecutive duplicates collapsed, each with a later date_created than the
\* one before.
C2_RecordsCollapsedReadings ==
    /\ Values(statuses) = Collapse(fed)
    /\ \A i \in 1..(Len(statuses) - 1) :
           statuses[i].date_created < statuses[i + 1].date_created

\* The readings true, true, false, false, true left exactly three events.
C2_Witness ==
    /\ fed = <<TRUE, TRUE, FALSE, FALSE, TRUE>>
    /\ Values(statuses) = <<TRUE, FALSE, TRUE>>

(***************************************************************************)
(* Properties of the notifier.                                             *)
(***************************************************************************)
PowerLog == LogOf(statuses, PowerLabel)

Failed(t) == {u \in DOMAIN t.outcome : t.outcome[u] = "failed"}
Sent(t) == {u \in DOMAIN t.outcome : t.outcome[u] = "sent"}

FanoutEnded == tick.pc = "end" /\ tick.exit = Some("fanout")

\* C3: a reading equal to the value the detector finds as the last one is
\* dropped: the step appends no event and starts no broadcast; and a tick of
\* the notifier that finds the latest power event at the cursor ends without
\* a broadcast.
C3_ReplayIsIdempotent ==
    [][/\ (poll.pc = "read" /\ poll'.pc = "idle" /\ poll.last_value = Some(poll.value))
           => (statuses' = statuses /\ broadcasts' = broadcasts)
       /\ (/\ tick.pc = "idle" /\ tick'.pc # "idle" /\ tick'.exit # Some("error")
           /\ LatestTwo(statuses, PowerLabel) # <<>>
           /\ cursor = Some(LatestTwo(statuses, PowerLabel)[1].id))
           => (tick'.pc = "end" /\ broadcasts' = broadcasts /\ cursor' = cursor)
      ]_vars

\* The detector has read, as last value, the reading it is about to record,
\* and the notifier has a cursor.
C3_Witness ==
    /\ poll.pc = "read"
    /\ poll.last_value = Some(poll.value)
    /\ Len(statuses) >= 2
    /\ cursor # None

\* C4: no event is the subject of more than one fanout cycle.
C4_AtMostOneFanoutPerEvent ==
    \A id \in DOMAIN broadcasts : broadcasts[id] <= 1

\* Two events have each been broadcast.
C4_Witness ==
    /\ tick.pc = "idle"
    /\ \E i, j \in DOMAIN broadcasts :
           i # j /\ broadcasts[i] = 1 /\ broadcasts[j] = 1

\* The i-th power event is a transition: its value differs from the one of
\* the power event before it.
IsTransition(log, i) == i > 1 /\ log[i].value # log[i - 1].value

\* C5: with subscribers present and a power log of transitions only, every
\* transition appended after the cursor was first set has been broadcast
\* exactly once by the time the cursor has reached or passed it.
C5_EveryTransitionBroadcast ==
    (/\ tick.pc = "idle"
     /\ EnabledUsers(users) # {}
     /\ NoAdjacentEqual(PowerLog)
     /\ firstCursor # None
     /\ cursor # None)
    => \A i \in 1..Len(PowerLog) :
          (/\ IsTransition(PowerLog, i)
           /\ PowerLog[i].id > firstCursor[1]
           /\ PowerLog[i].id <= cursor[1])
          => broadcasts[PowerLog[i].id] = 1

\* C6: a fanout is started only by a tick whose latest power event differs
\* from the cursor, and a tick that finds the latest power event at the
\* cursor ends at once, sending nothing.
C6_CursorGuard ==
    [][/\ (broadcasts' # broadcasts)
           => (/\ tick.latest # None
               /\ cursor # None
               /\ cursor # Some(tick.latest[1].id)
               /\ cursor = tick.cursor0)
       /\ (/\ tick.pc = "idle" /\ tick'.pc # "idle" /\ tick'.latest # None
           /\ cursor = Some(tick'.latest[1].id))
           => (tick'.pc = "end" /\ tick'.exit = Some("same"))
      ]_vars

\* A fanout is running for an event that is not at the cursor.
C6_Witness ==
    /\ tick.pc = "gather"
    /\ cursor # None
    /\ cursor # Some(tick.latest[1].id)

\* C7: the step that first sets the cursor sets it to the latest power event
\* and ends the tick without a broadcast, and no event with an id up to that
\* one is ever broadcast.
C7_CursorInitialisation ==
    /\ [][(cursor = None /\ cursor' # None)
            => (/\ cursor' = Some(LatestTwo(statuses, PowerLabel)[1].id)
                /\ tick'.pc = "end"
                /\ broadcasts' = broadcasts)]_vars
    /\ [](\A id \in DOMAIN broadcasts :
            broadcasts[id] > 0 => (firstCursor # None /\ id > firstCursor[1]))

\* The first tick that saw the power log found a transition as its latest
\* event, took it as cursor and made no broadcast.
C7_Witness ==
    /\ tick.pc = "end"
    /\ tick.cursor0 = None
    /\ tick.previous # None
    /\ tick.previous[1].value # tick.latest[1].value
    /\ cursor = Some(tick.latest[1].id)
    /\ \A id \in DOMAIN broadcasts : broadcasts[id] = 0

\* C8: the task of one subscriber ending, in failure too, removes only that
\* task from the pending ones, raises nothing into gather and leaves the
\* outcomes of the others alone; the fanout ends only with an outcome for
\* every subscriber it was started for.
C8_FailureIsolation ==
    /\ [][(tick.pc = "gather" /\ tick'.pending # tick.pending)
            => \E u \in tick.pending :
                  /\ tick'.pending = tick.pending \ {u}
                  /\ tick'.pc = "gather"
                  /\ tick'.results[u] = "None"
                  /\ tick'.outcome[u] \in {"sent", "failed"}
                  /\ \A w \in DOMAIN tick.outcome :
                        tick'.outcome[w] = tick.outcome[w]]_vars
    /\ [][tick.pc = "gather" => tick'.pc = "gather" \/ tick' = End("fanout")]_vars
    /\ [](FanoutEnded => DOMAIN tick.outcome = EnabledUsers(users))

\* A delivery has finally failed while other deliveries are still to run.
C8_Witness ==
    /\ tick.pc = "gather"
    /\ Failed(tick) # {}
    /\ Cardinality(tick.pending) >= 2

\* C9: when a fanout has ended, the failures and successes the coordinator
\* counts in the results of gather are the numbers of deliveries that ended
\* in failure and in success.
C9_ReportCountsOutcomes ==
    FanoutEnded
    => /\ ReportedFailures(tick.results) = Cardinality(Failed(tick))
       /\ ReportedSuccesses(tick.results) = Cardinality(Sent(tick))

\* C10: when a fanout has ended, whatever deliveries failed, the cursor is
\* the id of the event that was broadcast; and a fanout whose tasks have all
\* ended can always end.
C10_FailuresDoNotBlockCursor ==
    /\ FanoutEnded => cursor = Some(tick.latest[1].id)
    /\ (tick.pc = "gather" /\ tick.pending = {}) => ENABLED NotifyGathered

\* A fanout in which every one of three deliveries failed has ended with the
\* cursor at its event.
C10_Witness ==
    /\ FanoutEnded
    /\ Cardinality(Failed(tick)) = 3
    /\ cursor = Some(tick.latest[1].id)
    /\ tick.cursor0 # cursor

(***************************************************************************)
(* Properties of the send pipeline.                                        *)
(***************************************************************************)

\* C11: in every state of a broadcast, the deliveries that hold a slot of the
\* semaphore are at most max_concurrency, the configured cap (10 when the
\* environment sets none, 1 when it sets a value <= 0).
C11_BoundedConcurrency ==
    /\ Cardinality(Held(pipe)) <= pipe.max_concurrency
    /\ pipe.max_concurrency \in {DefaultMaxConcurrency} \cup (1..MaxEnv)

\* Every slot is held and one more delivery waits for a slot.
C11_Witness ==
    /\ Cardinality(Held(pipe)) = pipe.max_concurrency
    /\ \E d \in Deliveries : pipe.tasks[d].pc = "semaphore"

\* Every delivery has taken its token on its first attempt and no send has
\* failed: the last send of the broadcast has started.
AllSentAtFirstAttempt ==
    \A d \in Deliveries :
        /\ pipe.tasks[d].pc \in {"send", "done"}
        /\ pipe.tasks[d].attempt = 1
        /\ pipe.tasks[d].result \in {None, Some("ok")}

\* C12: with max_rate sends per second and MaxDeliveries deliveries that all
\* succeed on their first attempt, the last send starts no less than
\* (MaxDeliveries - 1) / max_rate seconds after the first, which is
\* MaxDeliveries - 1 units of the clock.
C12_RateLimitLowerBound ==
    AllSentAtFirstAttempt => pipe.since >= MaxDeliveries - 1

(***************************************************************************)
(* Properties of one delivery.                                             *)
(***************************************************************************)
IsTransient(out) == out # "ok" /\ is_retryable_telegram_exception(Exc(out))

\* C13: a delivery makes at most 3 attempts and stops at the first one that
\* succeeds: when the sends before the n-th would fail with a transient
\* error and the n-th would succeed, the delivery ends as sent after exactly
\* n attempts; so with failure, failure, success, after exactly 3.
C13_RetryProperty ==
    traced.fn = "send_notification_task"
    => LET outs == traced.args[2]
           r == traced.result
       IN  /\ r.attempts <= StopAfterSendAttempt
           /\ \A n \in 1..StopAfterSendAttempt :
                 (outs[n] = "ok" /\ \A m \in 1..(n - 1) : IsTransient(outs[m]))
                 => (r.delivery = "sent" /\ r.attempts = n)

\* The minutes that the phrase shows.
ShownMinutes(suffix) ==
    (IF suffix.hours = None THEN 0 ELSE suffix.hours[1] * MINS_IN_HOUR)
    + (IF suffix.minutes = None THEN 0 ELSE suffix.minutes[1])

\* C14: the duration shown in a notification is the whole minutes of the
\* time between the two events, in minutes or in hours and minutes, for
\* every duration, those of a day or more too.
C14_ElapsedTimePhrasing ==
    (traced.fn = "time_diff_text" /\ traced.result # None)
    => ShownMinutes(traced.result[1].suffix) = traced.args[1] \div SECS_IN_MINUTE

\* C15: the silent flag of a notification is set if and only if the event
\* was created inside the night window and the subscriber has night sound
\* disabled.
C15_SilentFlag ==
    traced.fn = "disable_sound"
    => (traced.result <=> (is_nighttime(traced.args[1]) /\ ~traced.args[3]))

(***************************************************************************)
(* Properties of the fanout beside its subscribers.                        *)
(***************************************************************************)

\* The subscribers whose notifications flag is set in table users.
Subscribed == {u \in UserIds : users[u] = TRUE}

\* The subscribers for whom the running fanout has created a task.
Snapshot(t) == t.pending \cup DOMAIN t.outcome

\* C16: a fanout creates its tasks for exactly the subscribers whose flag is
\* set when it reads table users (and ends without a task when there are
\* none), and whatever the subscribers switch afterwards, the deliveries of
\* the fanout stay the ones of that snapshot.
C16_Eligibility ==
    [][/\ (tick.pc = "users" /\ tick'.pc = "gather")
           => (tick'.pending = Subscribed /\ tick'.outcome = <<>> /\ Subscribed # {})
       /\ (tick.pc = "users" /\ tick'.exit = Some("no_users")) => Subscribed = {}
       /\ (tick.pc = "gather" /\ tick' # tick) => Snapshot(tick') = Snapshot(tick)
      ]_vars

\* While the fanout runs, a subscriber outside its snapshot has switched the
\* notifications on and one inside has switched them off; a delivery of
\* the snapshot has ended.
C16_Witness ==
    /\ tick.pc = "gather"
    /\ tick.outcome # <<>>
    /\ Subscribed \ Snapshot(tick) # {}
    /\ Snapshot(tick) \ Subscribed # {}

(***************************************************************************)
(* Properties of the device query.                                         *)
(***************************************************************************)

\* Every attempt of the traced device query has raised.
AllAttemptsFailed(t) ==
    /\ t.fn = "is_device_on"
    /\ Len(t.args) = StopAfterAttempt
    /\ \A i \in 1..Len(t.args) : t.args[i] = "exc"

\* C17: a tick in which every attempt of the device query fails ends like
\* any other tick, with the reading false: the reading fed to the detector
\* is false, and the detector appends an event of value false unless the
\* last event has that value already.
C17_DirectQueryFailurePolicy ==
    [][AllAttemptsFailed(traced') =>
          /\ traced'.result = "DeviceTimeoutError"
          /\ fed' = Append(fed, FALSE)
          /\ IF statuses # <<>> /\ statuses[Len(statuses)].value = FALSE
             THEN statuses' = statuses
             ELSE /\ Len(statuses') = Len(statuses) + 1
                  /\ statuses'[Len(statuses')].value = FALSE
                  /\ SubSeq(statuses', 1, Len(statuses)) = statuses
      ]_vars

\* After a reading of true, a tick whose five attempts all failed has
\* appended an event of value false.
C17_Witness ==
    /\ AllAttemptsFailed(traced)
    /\ Len(fed) >= 2
    /\ fed[Len(fed) - 1] = TRUE
    /\ fed[Len(fed)] = FALSE
    /\ Len(statuses) >= 2
    /\ statuses[Len(statuses)].value = FALSE

(***************************************************************************)
(* Properties of the loops.                                                *)
(***************************************************************************)

\* A tick of the notifier has ended in its exception handler.
TickFailed == tick.pc = "end" /\ tick.exit = Some("error")

\* C18: an exception of a tick never ends its loop; after a failed tick of
\* the poller the loop sleeps and is ready for the next tick, which is
\* executed (while the table has room for its event), and after a failed
\* tick of the notifier the job returns and a next tick is executed.
C18_CrashProofTicks ==
    /\ [](poll.pc \in {"idle", "read", "caught"})
    /\ [](tick.pc \in {"idle", "users", "gather", "end"})
    /\ (poll.pc = "caught") ~> (poll.pc = "idle")
    /\ (poll.pc = "idle" /\ Len(statuses) < MaxRows) ~> (poll.pc # "idle")
    /\ TickFailed ~> (tick.pc = "idle")
    /\ (tick.pc = "idle") ~> (tick.pc # "idle")

\* A tick of the poller has failed after a tick of the notifier failed too,
\* in its query for the subscribers.
C18_Witness ==
    /\ poll.pc = "caught"
    /\ TickFailed
    /\ tick.latest # None

(***************************************************************************)
(* Properties of the schedulers.                                           *)
(***************************************************************************)

C20_DetectionAtomic == NoAdjacentEqual(statuses)

(***************************************************************************)
(* Properties of the cold start.                                           *)
(***************************************************************************)

\* C21: a tick of the heartbeat source that finds no heartbeat row records
\* no event and changes neither the cursor nor the count of broadcasts, and
\* while the log is empty no broadcast has occurred and the cursor is unset.
C21_ColdStart ==
    /\ [][(heartbeat.row = None /\ traced'.fn = "heartbeat_sample"
              /\ traced' # traced)
            => /\ statuses' = statuses
               /\ fed' = fed
               /\ cursor' = cursor
               /\ broadcasts' = broadcasts]_vars
    /\ [](statuses = <<>> =>
            /\ cursor = None
            /\ \A id \in DOMAIN broadcasts : broadcasts[id] = 0)

\* A tick found no heartbeat row, the log is empty and a tick of the
\* notifier has ended on the empty log.
C21_Witness ==
    /\ heartbeat.row = None
    /\ traced.fn = "heartbeat_sample"
    /\ traced.result = None
    /\ statuses = <<>>
    /\ tick.pc = "end"
    /\ tick.exit = Some("empty")

(***************************************************************************)
(* Properties of the heartbeat ingress.                                    *)
(***************************************************************************)

\* C22: the bearer token is checked exactly when one is configured. With a
\* token configured, a request without the Authorization header or with
\* another token is answered 401 and leaves the heartbeat row unchanged,
\* and a request with the token is answered 200; with no token configured
\* a request without credentials is accepted, answered 200 and stored.
C22_HeartbeatAuthentication ==
    [][(traced'.fn = "listen_heartbeat" /\ traced' # traced) =>
          LET a == traced'.authorization
              configured == heartbeat.HEARTBEAT_TOKEN # ""
              right == a = Some(<<"Bearer", heartbeat.HEARTBEAT_TOKEN>>)
              wrong == a = None \/ (a[1][1] = "Bearer" /\ ~right)
          IN  /\ (configured /\ wrong) =>
                    (traced'.status = 401 /\ heartbeat'.row = heartbeat.row)
              /\ (configured /\ right) =>
                    (traced'.status = 200
                       /\ heartbeat'.row = Some(traced'.timestamp))
              /\ (~configured /\ a = None) =>
                    (traced'.status = 200
                       /\ heartbeat'.row = Some(traced'.timestamp))
      ]_vars

(***************************************************************************)
(* Properties of the start of the scheduler.                               *)
(***************************************************************************)

\* A required setting is unset or empty.
MissingSetting ==
    \E name \in DOMAIN startup.env : startup.env[name] \in {None, Some("")}

\* C23: with a required setting missing the process raises when it starts,
\* before its first tick: it never enters its loop, queries no device,
\* appends no event and sends nothing; once raised, it takes no step.
C23_ConfigurationErrorsFatal ==
    /\ []((startup.pc # "none" /\ MissingSetting) =>
            /\ startup.pc = "raised"
            /\ startup.env[startup.error] \in {None, Some("")}
            /\ poll = PollIdle
            /\ statuses = <<>>
            /\ pipe = PipeIdle)
    /\ [][startup.pc = "raised" => UNCHANGED vars]_vars

\* The process was started with an empty device address and has raised.
C23_Witness ==
    /\ startup.pc = "raised"
    /\ startup.error = "TAPO_DEVICE_IP"
    /\ startup.env["TAPO_DEVICE_IP"] = Some("")
    /\ statuses = <<>>

(***************************************************************************)
(* Properties of the event log.                                            *)
(***************************************************************************)

\* C24: the log is partitioned by label. Every event the detector records
\* is stored under the power label, the events of one label never hold two
\* adjacent equal values, and the event recorded last is the first row of
\* the notifier's query for the power events.
C24_LabelPartitioning ==
    /\ \A label \in Labels : NoAdjacentEqual(LogOf(statuses, label))
    /\ \A i \in 1..Len(statuses) : statuses[i].label = PowerLabel
    /\ statuses # <<>> =>
          LET rows == LatestTwo(statuses, PowerLabel)
          IN  rows # <<>> /\ rows[1] = statuses[Len(statuses)]

\* One log extends another by at most one event at its end.
SameOrOneMore(old, new) ==
    \/ new = old
    \/ Len(new) = Len(old) + 1 /\ SubSeq(new, 1, Len(old)) = old

\* C25: no step of the detector, of another writer or of the notifier
\* changes or removes an event of the log; every step leaves the log of each
\* label as it was or extends it by exactly one event at its end.
C25_AppendOnlyLog ==
    [][/\ Len(statuses') >= Len(statuses)
       /\ \A i \in 1..Len(statuses) : statuses'[i] = statuses[i]
       /\ \A label \in Labels :
             SameOrOneMore(LogOf(statuses, label), LogOf(statuses', label))
       /\ Cardinality({label \in Labels :
                          LogOf(statuses', label) # LogOf(statuses, label)}) <= 1
      ]_vars

\* The detector and another writer have both appended, the first event was
\* overtaken by two others, and the notifier has read the log.
C25_Witness ==
    /\ Len(statuses) = MaxRows
    /\ \E i, j \in 1..Len(statuses) :
          statuses[i].label = NoLabel /\ statuses[j].label = PowerLabel
    /\ tick.pc = "end"
    /\ tick.latest # None

\* The events of one label, in the order of their insertion.
Inserted(table, label) == SelectSeq(table, LAMBDA row : row.label = label)

\* C26: of two events of one label, the one inserted later has the larger
\* id and the later date_created, and the query for the two most recent
\* events of a label by date_created returns the event inserted last, then
\* the one inserted before it.
C26_OrderingWithinLabel ==
    \A label \in Labels :
        LET log == Inserted(statuses, label)
            rows == LatestTwo(statuses, label)
        IN  /\ \A i, j \in 1..Len(log) :
                   i < j => /\ log[i].id < log[j].id
                            /\ log[i].date_created < log[j].date_created
            /\ Len(rows) = IF Len(log) < 2 THEN Len(log) ELSE 2
            /\ Len(rows) >= 1 => rows[1] = log[Len(log)]
            /\ Len(rows) = 2 => rows[2] = log[Len(log) - 1]

(***************************************************************************)
(* Properties of the cursor.                                               *)
(***************************************************************************)

\* C27: when a tick of the notifier that has read a non-empty log ends
\* without an exception, the cursor is the id of the latest event it read:
\* at the cursor already, no transition, no subscriber, or fanout completed.
C27_CursorAtLatestRead ==
    (tick.pc = "end" /\ tick.latest # None /\ tick.exit # Some("error"))
        => cursor = Some(tick.latest[1].id)

\* A tick has moved a set cursor to an event that is no transition.
C27_Witness ==
    /\ tick.pc = "end"
    /\ tick.exit = Some("no_change")
    /\ tick.cursor0 # None
    /\ tick.cursor0 # cursor
    /\ cursor = Some(tick.latest[1].id)

\* C28: in a tick that broadcasts, the cursor keeps the value it had when
\* the tick began while any delivery task of the broadcast is still to
\* finish, and moves to the id of the broadcast event in the step that
\* follows the end of the last task.
C28_CursorMovesAfterDeliveries ==
    /\ [](tick.pc = "gather" =>
            /\ cursor = tick.cursor0
            /\ cursor # Some(tick.latest[1].id))
    /\ [][(tick.pc = "gather" /\ cursor' # cursor) =>
             /\ tick.pending = {}
             /\ DOMAIN tick.outcome # {}
             /\ tick'.pc = "end"
             /\ cursor' = Some(tick.latest[1].id)]_vars

\* The three deliveries of a broadcast have finished, one of them failed,
\* and the cursor has moved from its value at the start of the tick.
C28_Witness ==
    /\ FanoutEnded
    /\ Cardinality(DOMAIN tick.outcome) = Cardinality(UserIds)
    /\ Failed(tick) # {}
    /\ cursor # tick.cursor0
    /\ cursor = Some(tick.latest[1].id)

(***************************************************************************)
(* Properties of one send attempt.                                         *)
(***************************************************************************)

\* C29: in every attempt the task takes a slot of the semaphore while one is
\* free, then, holding it, a token of the limiter while the bucket has room,
\* and only then sends; a send is made by a task that holds both, and when
\* the send returns or raises the task leaves both and its slot is free.
C29_AcquisitionOrder ==
    [][\A d \in Deliveries :
          LET t == pipe.tasks[d]
              n == pipe'.tasks[d]
          IN  n # t =>
                /\ n.pc = "limiter" =>
                      /\ t.pc = "semaphore"
                      /\ Cardinality(Held(pipe)) < pipe.max_concurrency
                      /\ Held(pipe') = Held(pipe) \cup {d}
                /\ n.pc = "send" =>
                      /\ t.pc = "limiter"
                      /\ d \in Held(pipe)
                      /\ pipe.level + 1 <= pipe.max_rate
                      /\ pipe'.level = pipe.level + 1
                /\ t.pc = "send" =>
                      /\ n.pc \in {"done", "semaphore"}
                      /\ Held(pipe') = Held(pipe) \ {d}
      ]_vars

\* A task sends for the second time, after a first attempt that it left,
\* while another task waits for the only slot.
C29_Witness ==
    /\ pipe.max_concurrency = 1
    /\ \E d, e \in Deliveries :
          /\ pipe.tasks[d].pc = "send"
          /\ pipe.tasks[d].attempt = 2
          /\ pipe.tasks[e].pc = "semaphore"
          /\ Held(pipe) = {d}

(***************************************************************************)
(* Properties of the retries.                                              *)
(***************************************************************************)

\* The outcomes of a send that are transient errors, and the other errors.
TransientErrors == {"TimedOut"}
OtherErrors == SendOutcomes \ ({"ok"} \cup TransientErrors)

C31_BroadcastTerminates ==
    /\ [](tick.pc = "gather" =>
            /\ tick.pending \cap DOMAIN tick.outcome = {}
            /\ \A u \in DOMAIN tick.outcome : tick.outcome[u] \in {"sent", "failed"})
    /\ [][tick.pc = "gather" =>
             tick.pending \cup DOMAIN tick.outcome
                 = tick'.pending \cup DOMAIN tick'.outcome]_vars
    /\ (tick.pc = "gather") ~> (FanoutEnded /\ tick.pending = {})
    /\ FanoutEnded ~> (tick.pc = "idle")

\* A broadcast to three subscribers has ended with every task ended.
C31_Witness ==
    /\ FanoutEnded
    /\ tick.pending = {}
    /\ DOMAIN tick.outcome = UserIds
    /\ DOMAIN tick.results = UserIds

\* The attempts of outs, among the first n, that returned a value.
Answered(outs, n) == {i \in 1..n : outs[i] \in DeviceOn}

\* C32: a device query makes at most 5 attempts and ends with a reading:
\* the value of the first attempt that returns one, among the first 5, or,
\* when these 5 all raise, whatever they raise and whatever a 6th attempt
\* would give, DeviceTimeoutError and the reading false.
C32_DefiniteReading ==
    traced.fn = "poll_once" =>
       LET outs == traced.args
           ok == Answered(outs, StopAfterAttempt)
       IN  /\ traced.value \in BOOLEAN
           /\ ok # {} =>
                 LET first == CHOOSE i \in ok : \A j \in ok : i <= j
                 IN  /\ traced.result = outs[first]
                     /\ traced.value = (outs[first] = "on")
           /\ ok = {} =>
                 /\ traced.result = "DeviceTimeoutError"
                 /\ traced.value = FALSE

\* Five attempts raised, exceptions of two classes, and a sixth would have
\* found the device on: the reading is false.
C32_Witness ==
    /\ traced.fn = "poll_once"
    /\ traced.args[1] = "ConnectionError"
    /\ traced.args[2] = "TimeoutError"
    /\ Answered(traced.args, StopAfterAttempt) = {}
    /\ traced.args[StopAfterAttempt + 1] = "on"
    /\ traced.value = FALSE

(***************************************************************************)
(* Properties of the first event.                                          *)
(***************************************************************************)

\* C33: for an event that has no previous event of its label no message is
\* sent, with or without an elapsed-time phrase: a tick that reads it ends
\* without reading the subscribers, no broadcast is ever started for the
\* first event of the power log, and every broadcast has a previous event.
C33_FirstEventNotAnnounced ==
    /\ (tick.latest # None /\ tick.previous = None) =>
          /\ tick.pc = "end"
          /\ tick.exit \in {Some("same"), Some("no_change")}
          /\ tick.pending = {} /\ tick.outcome = <<>>
    /\ PowerLog # <<>> => broadcasts[PowerLog[1].id] = 0
    /\ tick.pc \in {"users", "gather"} => tick.previous # None

\* With subscribers present, a tick has read the only event of the power
\* log and has ended; no broadcast was started.
C33_Witness ==
    /\ Len(PowerLog) = 1
    /\ Subscribed # {}
    /\ tick.pc = "end"
    /\ tick.latest = Some(PowerLog[1])
    /\ tick.previous = None
    /\ cursor = Some(PowerLog[1].id)
    /\ \A id \in DOMAIN broadcasts : broadcasts[id] = 0

(***************************************************************************)
(* Properties of the heartbeat table.                                      *)
(***************************************************************************)

\* The labels whose pings have been accepted.
Monitored == {l \in HeartbeatLabels : heartbeat.received[l] # None}

\* C34: after any sequence of accepted pings the heartbeat table has exactly
\* one row for each label that has pinged, and for each such label a row
\* holds the timestamp of that label's most recent accepted ping.
C34_HeartbeatUpsert ==
    /\ Cardinality(HeartbeatRows) = Cardinality(Monitored)
    /\ \A l \in Monitored :
          \E r \in HeartbeatRows : Some(r.timestamp) = heartbeat.received[l]

(***************************************************************************)
(* Properties of the call of send_message_with_retry.                      *)
(***************************************************************************)

\* The arguments of a call arrive in the parameters they are meant for: the
\* call binds, and the bot, the limiters, the recipient, the text and the
\* silent flag are the values of the parameters of those names.
ArgumentsArrive(call, user_id, text, silent) ==
    LET b == Bind(call)
    IN  /\ b.ok
        /\ b.bound.bot_app = Arg("Application", "app")
        /\ b.bound.semaphore = Arg("Semaphore", "semaphore")
        /\ b.bound.rate_limiter = Arg("AsyncLimiter", "rate_limiter")
        /\ b.bound.user_id = Arg("int", user_id)
        /\ b.bound.message_text = Arg("str", text)
        /\ b.bound.disable_sound = Arg("bool", silent)

\* C35: the send of a notification to subscriber u is addressed to u and
\* carries u's text and u's silent flag: what _send_status_notification hands
\* to send_message_with_retry arrives in the parameters used for the bot,
\* the limiters, the recipient, the text and the silent flag, so that a send
\* that Telegram would accept is performed; so do the arguments of msg_all.
C35_ArgumentsArrive ==
    /\ traced.fn = "send_notification_task" =>
          LET u == traced.args[1]
          IN  /\ ArgumentsArrive(NotificationCall(u, "final_text", "silent"),
                                 u, "final_text", "silent")
              /\ traced.args[2][1] = "ok" =>
                    (traced.result.delivery = "sent" /\ traced.result.attempts = 1)
    /\ traced.fn = "send_message_with_retry" =>
          LET u == traced.args[1]
          IN  /\ ArgumentsArrive(KeywordCall(u, "message", "loud"),
                                 u, "message", "loud")
              /\ traced.args[2][1] = "ok" => traced.result.result = "ok"

\* C36: the cursor, once set, never decreases and is never unset again, and
\* it is always unset or the id of an event of the power log.
C36_CursorMonotone ==
    /\ [](cursor = None \/ \E i \in 1..Len(PowerLog) : PowerLog[i].id = cursor[1])
    /\ [][cursor # None => (cursor' # None /\ cursor'[1] >= cursor[1])]_vars

\* A tick has moved a set cursor to a later power event, while the log
\* holds an event of another label as well.
C36_Witness ==
    /\ cursor # None
    /\ tick.pc = "end" /\ tick.cursor0 # None
    /\ tick.cursor0[1] < cursor[1]
    /\ Len(PowerLog) < Len(statuses)

\* The latest power event is a transition that the cursor is not at.
UnnotifiedTransition(cur, rows) ==
    /\ Len(rows) = 2
    /\ cur # None /\ cur # Some(rows[1].id)
    /\ rows[1].value # rows[2].value

\* C37: a tick that has found a new transition and ends with an exception
\* before its fanout leaves the cursor as it was, away from that event; and
\* any tick that then reads the log without an exception while that event is
\* still the latest goes on to the subscribers with it and, reading them
\* without an exception, starts the broadcast of it.
C37_AbortKeepsCursor ==
    /\ [][(tick'.exit = Some("error") /\ tick.pc # "end") => cursor' = cursor]_vars
    /\ []((tick.pc = "end" /\ tick.exit = Some("error") /\ tick.latest # None)
            => /\ cursor = tick.cursor0
               /\ cursor # Some(tick.latest[1].id)
               /\ LatestTwo(statuses, PowerLabel)[1] = tick.latest[1]
                     => UnnotifiedTransition(cursor, LatestTwo(statuses, PowerLabel)))
    /\ [][(/\ tick.pc = "idle" /\ tick'.pc # "idle"
           /\ tick'.exit # Some("error")
           /\ UnnotifiedTransition(cursor, LatestTwo(statuses, PowerLabel)))
          => /\ tick'.pc = "users"
             /\ tick'.latest = Some(LatestTwo(statuses, PowerLabel)[1])
             /\ cursor' = cursor]_vars
    /\ [][(/\ tick.pc = "users" /\ tick'.pc # "users"
           /\ tick'.exit # Some("error")
           /\ Subscribed # {})
          => /\ tick'.pc = "gather"
             /\ broadcasts'[tick.latest[1].id] = broadcasts[tick.latest[1].id] + 1]_vars

\* The query for the subscribers has failed in a tick that had found a
\* transition; that event is still the latest and there are subscribers.
C37_Witness ==
    /\ tick.pc = "end" /\ tick.exit = Some("error")
    /\ tick.latest # None /\ tick.previous # None
    /\ LatestTwo(statuses, PowerLabel)[1] = tick.latest[1]
    /\ cursor = tick.cursor0
    /\ broadcasts[tick.latest[1].id] = 0
    /\ Subscribed # {}

\* C38: a tick that reads, away from the cursor, a latest power event whose
\* value is that of the event before it, or that is the only one, ends at
\* once: it starts no broadcast, creates no delivery task, and leaves the
\* cursor at the id of that event.
C38_NoTransitionNoBroadcast ==
    [][LET rows == LatestTwo(statuses, PowerLabel)
       IN  (/\ tick.pc = "idle" /\ tick'.pc # "idle"
            /\ tick'.exit # Some("error")
            /\ rows # <<>>
            /\ cursor # Some(rows[1].id)
            /\ (Len(rows) = 1 \/ rows[1].value = rows[2].value))
           => /\ tick'.pc = "end"
              /\ tick'.pending = {} /\ tick'.outcome = <<>>
              /\ broadcasts' = broadcasts
              /\ cursor' = Some(rows[1].id)]_vars

\* With subscribers present, a tick has ended on a latest event that repeats
\* the value of the one before it; the cursor has moved to it from another
\* event and no broadcast of it was started.
C38_Witness ==
    /\ tick.pc = "end"
    /\ tick.latest # None /\ tick.previous # None
    /\ tick.latest[1].value = tick.previous[1].value
    /\ tick.cursor0 # None
    /\ tick.cursor0 # Some(tick.latest[1].id)
    /\ cursor = Some(tick.latest[1].id)
    /\ broadcasts[tick.latest[1].id] = 0
    /\ Subscribed # {}

(***************************************************************************)
(* Properties of the backoff.                                              *)
(***************************************************************************)

\* The tasks between two attempts: in the sleep of the backoff or, after it,
\* waiting for a slot again.
InBackoff(p) ==
    {d \in DOMAIN p.tasks : p.tasks[d].pc = "semaphore" /\ p.tasks[d].attempt > 1}

\* C39: a task holds a slot and a token for one attempt only. The step that
\* ends an attempt to be retried frees the task's slot and takes no token;
\* while the task waits for its next attempt it holds no slot, so a waiting
\* task can take a slot whenever fewer than the cap are held, however many
\* tasks are between attempts; and every attempt, the retries too, takes a
\* slot anew and then a new token before it sends.
C39_BackoffHoldsNothing ==
    /\ [][\A d \in Deliveries :
             LET t == pipe.tasks[d]
                 n == pipe'.tasks[d]
             IN  /\ n.attempt # t.attempt =>
                       /\ n.attempt = t.attempt + 1
                       /\ t.pc = "send" /\ n.pc = "semaphore"
                       /\ d \in InBackoff(pipe')
                       /\ Held(pipe') = Held(pipe) \ {d}
                       /\ pipe'.level = pipe.level
                 /\ (d \in InBackoff(pipe) /\ n # t) =>
                       /\ n.pc = "limiter" /\ n.attempt = t.attempt
                       /\ Cardinality(Held(pipe)) < pipe.max_concurrency
                 /\ (n.pc = "send" /\ t.pc # "send" /\ n.attempt > 1) =>
                       /\ t.pc = "limiter"
                       /\ pipe'.level = pipe.level + 1
       ]_vars
    /\ [](\A e \in Deliveries :
             (/\ pipe.tasks[e].pc = "semaphore"
              /\ Cardinality(Held(pipe)) < pipe.max_concurrency)
             => ENABLED SemaphoreAcquire(e))

\* Two tasks hold the two slots, one of them in its second attempt, while a
\* third waits between its first attempt and its second.
C39_Witness ==
    /\ pipe.max_concurrency = 2
    /\ Cardinality(Held(pipe)) = 2
    /\ InBackoff(pipe) # {}
    /\ \E d \in Held(pipe) : pipe.tasks[d].pc = "send" /\ pipe.tasks[d].attempt = 2

(***************************************************************************)
(* Properties of the schedule of the generator.                            *)
(***************************************************************************)

\* The intervals of a schedule that hold minute m of the day.
Enclosing(schedule, m) ==
    {i \in 1..Len(schedule) : schedule[i][1] <= m /\ m < schedule[i][2]}

\* C40: on every day of the week every minute of the day lies in exactly
\* one interval [start, end) of the day's schedule; neither function reaches
\* its fallback, the status is that of the interval, and the time to the
\* next switch is at least 1 minute and at most the length of the interval.
C40_ScheduleCoverage ==
    traced.fn = "generator" =>
        LET schedule == get_gen_schedule_for_date(traced.args[1])
            m == traced.args[2] * MINS_IN_HOUR + traced.args[3]
        IN  /\ Cardinality(Enclosing(schedule, m)) = 1
            /\ ~traced.status.fallback
            /\ ~traced.left.fallback
            /\ \A i \in Enclosing(schedule, m) :
                  /\ traced.status.is_on = schedule[i][3]
                  /\ 1 <= traced.left.minutes
                  /\ traced.left.minutes <= schedule[i][2] - schedule[i][1]
                  /\ m + traced.left.minutes = schedule[i][2]

\* The functions were called at 06:45 on a Saturday, in the break that on a
\* weekday has ended at 06:30: off, 15 minutes to the switch.
C40_Witness ==
    /\ traced.fn = "generator"
    /\ traced.args = <<5, 6, 45>>
    /\ traced.status = [fallback |-> FALSE, is_on |-> FALSE]
    /\ traced.left = [fallback |-> FALSE, minutes |-> 15]

====
